---------------------------- MODULE Spec2Model ----------------------------
(***************************************************************************)
(* State-machine model of the trading decision pipeline:                   *)
(*   SignalGenerator (app/core/signal_generator.py)                        *)
(*   RiskManager     (app/core/risk_manager.py)                            *)
(*   TradingAgent    (app/core/trading_agent.py)                           *)
(*   /analyze        (app/main.py)                                         *)
(*                                                                         *)
(* Numbers.  Prices and money are integers in hundredths (cents), the      *)
(* resolution of the code's round(x, 2).  Intermediate values of the code  *)
(* are floats; the model computes them as exact rationals (numerator and   *)
(* denominator) and rounds where the code rounds, half to even as Python's *)
(* round does.  Percent parameters are whole percents.                     *)
(*                                                                         *)
(* Optional values (Python None) are <<>>; a present value v is <<v>>.     *)
(* Strings whose content the code inspects are sequences of characters.    *)
(***************************************************************************)
EXTENDS Integers, Sequences, FiniteSets, TLC

VARIABLES
    risk_manager,      \* TradingAgent.risk_manager: the RiskManager's fields
    capital,           \* TradingAgent.capital
    analysis_history,  \* TradingAgent.analysis_history
    call,              \* the last completed call: [op, args, ret]
    pc,                \* per /analyze request: position of its handler
    request,           \* per /analyze request: the AnalysisRequest
    response,          \* per /analyze request: what the handler answered
    frame,             \* per /analyze request: the locals of its analyze call
    running,           \* the task that holds the event loop, <<>> when idle
    llm,               \* the narrative collaborator's answer to the pending call
    active_connections, \* manager.active_connections: the registered websockets
    websocket          \* per /ws/signals connection: its handler's position and
                       \* whether the client's end is still open

vars == << risk_manager, capital, analysis_history, call,
           pc, request, response, frame, running, llm,
           active_connections, websocket >>

-----------------------------------------------------------------------------
(* Optional values *)

None == <<>>

Some(v) == <<v>>

IsNone(x) == x = <<>>

\* Python truthiness of an Optional[float]: None and 0.0 are both falsy
Truthy(x) == x # <<>> /\ x[1] # 0

\* the body of [name \in {value} |-> body]: a local name bound to a value once,
\* as an assignment binds it
With(f) == f[CHOOSE v \in DOMAIN f : TRUE]

-----------------------------------------------------------------------------
(* Arithmetic *)

Abs(x) == IF x < 0 THEN 0 - x ELSE x

Min(a, b) == IF a <= b THEN a ELSE b

Max(a, b) == IF a >= b THEN a ELSE b

\* round(n / d) to the nearest integer, ties to even; d > 0
RoundDiv(n, d) ==
    LET q == n \div d
        r == n % d
    IN  IF 2 * r < d THEN q
        ELSE IF 2 * r > d THEN q + 1
        ELSE IF q % 2 = 0 THEN q ELSE q + 1

\* <<q, r>> with a * b = q * c + r and 0 <= r < c, without forming a * b
\* (a, b >= 0, c > 0): binary long multiplication
RECURSIVE MulDivQR(_, _, _)
MulDivQR(a, b, c) ==
    IF b = 0 THEN << 0, 0 >>
    ELSE LET h  == MulDivQR(a, b \div 2, c)
             d2 == 2 * h[2]
             q2 == 2 * h[1] + (d2 \div c)
             r2 == d2 % c
             s  == r2 + (a % c)
         IN  IF b % 2 = 0 THEN << q2, r2 >>
             ELSE << q2 + (a \div c) + (s \div c), s % c >>

\* round(a * b / c), ties to even
MulDivRound(a, b, c) ==
    LET qr == MulDivQR(a, b, c)
    IN  IF 2 * qr[2] < c THEN qr[1]
        ELSE IF 2 * qr[2] > c THEN qr[1] + 1
        ELSE IF qr[1] % 2 = 0 THEN qr[1] ELSE qr[1] + 1

-----------------------------------------------------------------------------
(* Text *)

LowerCase ==
    << "a", "b", "c", "d", "e", "f", "g", "h", "i", "j", "k", "l", "m",
       "n", "o", "p", "q", "r", "s", "t", "u", "v", "w", "x", "y", "z" >>

UpperCase ==
    << "A", "B", "C", "D", "E", "F", "G", "H", "I", "J", "K", "L", "M",
       "N", "O", "P", "Q", "R", "S", "T", "U", "V", "W", "X", "Y", "Z" >>

\* str.upper() on one character
UpperChar(c) ==
    IF \E i \in 1..26 : LowerCase[i] = c
    THEN UpperCase[CHOOSE i \in 1..26 : LowerCase[i] = c]
    ELSE c

\* str.upper()
Upper(s) == [i \in 1..Len(s) |-> UpperChar(s[i])]

\* Python's  sub in s  for strings
Contains(sub, s) ==
    \E i \in 1..(Len(s) - Len(sub) + 1) : SubSeq(s, i, i + Len(sub) - 1) = sub

DigitChars == << "0", "1", "2", "3", "4", "5", "6", "7", "8", "9" >>

\* str(n) for n >= 0
RECURSIVE FmtInt(_)
FmtInt(n) ==
    IF n < 10 THEN << DigitChars[n + 1] >>
    ELSE FmtInt(n \div 10) \o << DigitChars[(n % 10) + 1] >>

\* f"{x:.1f}" for a whole number x
Fmt1(n) == FmtInt(n) \o << ".", "0" >>

T_EXTREME == << "E", "X", "T", "R", "E", "M", "E" >>

T_CAUTION == << "C", "A", "U", "T", "I", "O", "N" >>

W_SIDEWAYS ==
    << "M", "a", "r", "k", "e", "t", " ", "i", "n", " ", "s", "i", "d", "e",
       "w", "a", "y", "s", " ", "c", "o", "n", "s", "o", "l", "i", "d", "a",
       "t", "i", "o", "n" >>

W_SQUEEZE ==
    << "V", "o", "l", "a", "t", "i", "l", "i", "t", "y", " ", "s", "q", "u",
       "e", "e", "z", "e", " ", "-", " ", "a", "w", "a", "i", "t", " ", "b",
       "r", "e", "a", "k", "o", "u", "t", " ", "d", "i", "r", "e", "c", "t",
       "i", "o", "n" >>

W_WEAK_ADX(adx_value) ==
    << "W", "e", "a", "k", " ", "t", "r", "e", "n", "d", " ", "s", "t", "r",
       "e", "n", "g", "t", "h", " ", "(", "A", "D", "X", " " >>
    \o Fmt1(adx_value) \o << ")" >>

W_LOW_VOLUME ==
    << "L", "o", "w", " ", "v", "o", "l", "u", "m", "e", " ", "-", " ", "w",
       "e", "a", "k", " ", "c", "o", "n", "f", "i", "r", "m", "a", "t", "i",
       "o", "n" >>

W_VOLATILITY_TAIL ==
    << " ", "v", "o", "l", "a", "t", "i", "l", "i", "t",
       "y", " ", "-", " ", "w", "i", "d", "e", "r", " ", "s", "t", "o", "p",
       "s", " ", "r", "e", "c", "o", "m", "m", "e", "n", "d", "e", "d" >>

S_HIGH == << "H", "I", "G", "H" >>

\* f"{volatility} volatility - wider stops recommended"
W_VOLATILITY(volatility) ==
    (IF volatility = "EXTREME" THEN T_EXTREME ELSE S_HIGH) \o W_VOLATILITY_TAIL

\* warnings a caller of validate_signal_quality may attach to a TradingSignal
W_MIXED_CASE ==
    << "U", "s", "e", " ", "c", "a", "u", "t", "i", "o", "n", ":", " ", "t",
       "h", "i", "n", " ", "b", "o", "o", "k" >>

W_EMBEDDED ==
    << "e", "x", "t", "r", "e", "m", "e", "l", "y", " ", "w", "i", "d", "e",
       " ", "s", "p", "r", "e", "a", "d" >>

\* str.lower() on one character
LowerChar(c) ==
    IF \E i \in 1..26 : UpperCase[i] = c
    THEN LowerCase[CHOOSE i \in 1..26 : UpperCase[i] = c]
    ELSE c

\* str.lower()
Lower(s) == [i \in 1..Len(s) |-> LowerChar(s[i])]

S_STRONG_UPTREND ==
    << "S", "T", "R", "O", "N", "G", " ", "U", "P", "T", "R", "E", "N", "D" >>

S_STRONG_DOWNTREND ==
    << "S", "T", "R", "O", "N", "G", " ", "D", "O", "W", "N", "T", "R", "E",
       "N", "D" >>

S_UPTREND ==
    << "U", "P", "T", "R", "E", "N", "D" >>

S_DOWNTREND ==
    << "D", "O", "W", "N", "T", "R", "E", "N", "D" >>

S_SIDEWAYS ==
    << "S", "I", "D", "E", "W", "A", "Y", "S" >>

S_STRONG ==
    << "S", "T", "R", "O", "N", "G" >>

S_GOLDEN_CROSS ==
    << "G", "o", "l", "d", "e", "n", " ", "C", "r", "o", "s", "s", " ", "(",
       "E", "M", "A", "2", "1", " ", ">", " ", "S", "M", "A", "5", "0", ")" >>

S_DEATH_CROSS ==
    << "D", "e", "a", "t", "h", " ", "C", "r", "o", "s", "s", " ", "(", "E",
       "M", "A", "2", "1", " ", "<", " ", "S", "M", "A", "5", "0", ")" >>

S_GOLDEN ==
    << "G", "o", "l", "d", "e", "n" >>

S_DEATH ==
    << "D", "e", "a", "t", "h" >>

S_BB_UPPER ==
    << "P", "r", "i", "c", "e", " ", "a", "t", " ", "u", "p", "p", "e", "r",
       " ", "b", "a", "n", "d", " ", "-", " ", "o", "v", "e", "r", "b", "o",
       "u", "g", "h", "t" >>

S_BB_LOWER ==
    << "P", "r", "i", "c", "e", " ", "a", "t", " ", "l", "o", "w", "e", "r",
       " ", "b", "a", "n", "d", " ", "-", " ", "o", "v", "e", "r", "s", "o",
       "l", "d" >>

S_BB_SQUEEZE ==
    << "V", "o", "l", "a", "t", "i", "l", "i", "t", "y", " ", "s", "q", "u",
       "e", "e", "z", "e", " ", "-", " ", "b", "r", "e", "a", "k", "o", "u",
       "t", " ", "p", "e", "n", "d", "i", "n", "g" >>

S_BB_PRICE_AT ==
    << "P", "r", "i", "c", "e", " ", "a", "t", " " >>

S_BB_OF_WIDTH ==
    << "%", " ", "o", "f", " ", "b", "a", "n", "d", " ", "w", "i", "d", "t",
       "h" >>

S_SQUEEZE ==
    << "s", "q", "u", "e", "e", "z", "e" >>

-----------------------------------------------------------------------------
(* RiskManager -- app/core/risk_manager.py *)

\* RiskManager.__init__
RiskManager(cap, mrp, mdlp, mddp) ==
    [ capital                |-> cap,
      max_risk_percent       |-> mrp,
      max_daily_loss_percent |-> mdlp,
      max_drawdown_percent   |-> mddp,
      daily_losses           |-> 0,
      open_positions         |-> << >> ]

\* the unrounded sl_price of calculate_stop_loss as << numerator, denominator >>
\* and the level named in the invalidation text
SlPrice(entry_price, signal_type, atr, support_level, resistance_level, method) ==
    IF method = "ATR" THEN
        IF signal_type = "BUY"
        THEN [ num |-> 2 * entry_price - 3 * atr, den |-> 2, level |-> None ]
        ELSE [ num |-> 2 * entry_price + 3 * atr, den |-> 2, level |-> None ]
    ELSE IF method = "LEVEL" THEN
        IF signal_type = "BUY"
        THEN LET support ==
                     IF IsNone(support_level) THEN entry_price - 2 * atr
                     ELSE support_level[1]
             IN  [ num |-> 5 * support - atr, den |-> 5, level |-> Some(support) ]
        ELSE LET resistance ==
                     IF IsNone(resistance_level) THEN entry_price + 2 * atr
                     ELSE resistance_level[1]
             IN  [ num |-> 5 * resistance + atr, den |-> 5, level |-> Some(resistance) ]
    ELSE \* PERCENTAGE: stop_percent = 0.025
        IF signal_type = "BUY"
        THEN [ num |-> 39 * entry_price, den |-> 40, level |-> None ]
        ELSE [ num |-> 41 * entry_price, den |-> 40, level |-> None ]

\* distance = abs(entry_price - sl_price), as a numerator over sl.den
SlDistanceNum(entry_price, sl) ==
    Abs(entry_price * sl.den - sl.num)

\* RiskManager.calculate_stop_loss; distance_percent is in thousandths of a percent
calculate_stop_loss(entry_price, signal_type, atr, support_level, resistance_level, method) ==
    LET sl       == SlPrice(entry_price, signal_type, atr, support_level,
                            resistance_level, method)
        distance == SlDistanceNum(entry_price, sl)
    IN  [ price              |-> RoundDiv(sl.num, sl.den),
          distance_pips      |-> RoundDiv(distance, sl.den),
          distance_percent   |-> MulDivRound(distance, 100000, sl.den * entry_price),
          method             |-> method,
          invalidation_logic |->
              IF method = "ATR"
              THEN << IF signal_type = "BUY" THEN "Price closes below"
                      ELSE "Price closes above", RoundDiv(sl.num, sl.den), "(1.5x ATR)" >>
              ELSE IF method = "LEVEL"
              THEN << IF signal_type = "BUY" THEN "Price breaks below support at"
                      ELSE "Price breaks above resistance at", sl.level[1] >>
              ELSE << IF signal_type = "BUY" THEN "Price drops 2.5% from entry"
                      ELSE "Price rises 2.5% from entry" >> ]

\* one TakeProfit; ratio in hundredths, distance_percent in thousandths of a percent
TakeProfit(entry_price, tp_price, distance, ratio, position_percentage) ==
    [ price               |-> tp_price,
      distance_pips       |-> distance,
      distance_percent    |-> MulDivRound(distance, 100000, entry_price),
      ratio               |-> ratio,
      position_percentage |-> position_percentage ]

\* tp3_price snapped to any opposing level short of the outer bound, also one
\* nearer than tp2_price
Tp3PriceAnyLevel(entry_price, risk_distance, signal_type, resistance_level, support_level) ==
    IF signal_type = "BUY"
    THEN LET tp3_price == entry_price + risk_distance * 3
         IN  IF /\ Truthy(resistance_level)
                /\ resistance_level[1] > entry_price
                /\ 5 * resistance_level[1] < 6 * tp3_price
             THEN resistance_level[1] ELSE tp3_price
    ELSE LET tp3_price == entry_price - risk_distance * 3
         IN  IF /\ Truthy(support_level)
                /\ support_level[1] < entry_price
                /\ 5 * support_level[1] > 4 * tp3_price
             THEN support_level[1] ELSE tp3_price

\* tp3_price left at three risk distances whatever the levels
Tp3PriceNominal(entry_price, risk_distance, signal_type, resistance_level, support_level) ==
    IF signal_type = "BUY" THEN entry_price + risk_distance * 3
    ELSE entry_price - risk_distance * 3

\* the tp3_price of calculate_take_profits (in cents, exact)
Tp3Price(entry_price, risk_distance, signal_type, resistance_level, support_level) ==
    IF signal_type = "BUY"
    THEN LET tp2_price == entry_price + risk_distance * 2
             tp3_price == entry_price + risk_distance * 3
         IN  IF /\ Truthy(resistance_level)
                /\ resistance_level[1] > tp2_price
                /\ 5 * resistance_level[1] < 6 * tp3_price
             THEN resistance_level[1] ELSE tp3_price
    ELSE LET tp2_price == entry_price - risk_distance * 2
             tp3_price == entry_price - risk_distance * 3
         IN  IF /\ Truthy(support_level)
                /\ support_level[1] < tp2_price
                /\ 5 * support_level[1] > 4 * tp3_price
             THEN support_level[1] ELSE tp3_price

\* RiskManager.calculate_take_profits (stop_loss.distance_pips > 0)
calculate_take_profits(entry_price, stop_loss, signal_type, resistance_level, support_level) ==
    LET risk_distance == stop_loss.distance_pips
        sign          == IF signal_type = "BUY" THEN 1 ELSE 0 - 1
        tp3_price     == Tp3Price(entry_price, risk_distance, signal_type,
                                  resistance_level, support_level)
    IN  [ tp1 |-> TakeProfit(entry_price, entry_price + sign * risk_distance,
                             risk_distance, 100, 50),
          tp2 |-> TakeProfit(entry_price, entry_price + sign * risk_distance * 2,
                             risk_distance * 2, 200, 30),
          tp3 |-> TakeProfit(entry_price, tp3_price, Abs(entry_price - tp3_price),
                             MulDivRound(Abs(entry_price - tp3_price), 100, risk_distance),
                             20) ]

\* the three distances averaged, every leg counted alike
WeightedProfitEqualLegs(take_profits) ==
    ( 100 * ( take_profits.tp1.distance_pips + take_profits.tp2.distance_pips
              + take_profits.tp3.distance_pips ) ) \div 3

\* 100 * total_profit of calculate_risk_reward: the position-weighted distances
WeightedProfit(take_profits) ==
      take_profits.tp1.distance_pips * take_profits.tp1.position_percentage
    + take_profits.tp2.distance_pips * take_profits.tp2.position_percentage
    + take_profits.tp3.distance_pips * take_profits.tp3.position_percentage

\* RiskManager.calculate_risk_reward with capital = None; ratio in hundredths
calculate_risk_reward(self, entry_price, stop_loss, take_profits) ==
    LET cap_pct == self.capital * self.max_risk_percent     \* 100 * risk_amount
        w       == WeightedProfit(take_profits)             \* 100 * total_profit
        sl      == stop_loss.distance_pips
    IN  [ ratio         |-> RoundDiv(w, sl),
          risk_amount   |-> RoundDiv(cap_pct, 100),
          profit_target |-> MulDivRound(cap_pct, w, 10000 * sl),
          status        |-> IF 2 * w >= 500 * sl THEN "EXCELLENT"
                            ELSE IF w >= 200 * sl THEN "GOOD"
                            ELSE IF 2 * w >= 300 * sl THEN "ACCEPTABLE"
                            ELSE "REJECT" ]

\* RiskManager.calculate_position_size with capital = None, risk_percent = None;
\* units and leverage_required in hundredths, lot_size in ten-thousandths
calculate_position_size(self, entry_price, stop_loss) ==
    LET cap_pct == self.capital * self.max_risk_percent     \* 100 * risk_amount
        sl      == stop_loss.distance_pips
    IN  [ units             |-> RoundDiv(cap_pct, sl),
          lot_size          |-> RoundDiv(cap_pct, 1000 * sl),
          risk_amount       |-> RoundDiv(cap_pct, 100),
          position_value    |-> MulDivRound(cap_pct, entry_price, 100 * sl),
          leverage_required |-> RoundDiv(self.max_risk_percent * entry_price, sl) ]

\* remaining = max_daily_loss - self.daily_losses, rounded to cents
RemainingAllowance(self) ==
    RoundDiv(self.capital * self.max_daily_loss_percent - 100 * self.daily_losses, 100)

\* RiskManager.check_daily_loss_limit
check_daily_loss_limit(self, potential_loss) ==
    LET allowed == 100 * (self.daily_losses + potential_loss)
                       <= self.capital * self.max_daily_loss_percent
    IN  [ allowed             |-> allowed,
          current_daily_loss  |-> self.daily_losses,
          potential_loss      |-> potential_loss,
          max_daily_loss      |-> RoundDiv(self.capital * self.max_daily_loss_percent, 100),
          remaining_allowance |-> RemainingAllowance(self),
          message             |-> IF allowed THEN "Trade allowed"
                                  ELSE "Daily loss limit would be exceeded" ]

RECURSIVE SumRisk(_)
\* sum([p.get("risk_amount", 0) for p in self.open_positions])
SumRisk(positions) ==
    IF positions = << >> THEN 0
    ELSE Head(positions).risk_amount + SumRisk(Tail(positions))

\* RiskManager.check_portfolio_risk (self.capital > 0);
\* total_risk_percent in hundredths of a percent
check_portfolio_risk(self, new_position_risk, max_open_positions) ==
    LET current_positions == Len(self.open_positions)
        total_risk        == SumRisk(self.open_positions) + new_position_risk
        position_count_ok == current_positions < max_open_positions
        within_limits     == 100 * total_risk < self.max_drawdown_percent * self.capital
    IN  [ position_count_ok    |-> position_count_ok,
          current_positions    |-> current_positions,
          max_positions        |-> max_open_positions,
          total_risk           |-> total_risk,
          total_risk_percent   |-> MulDivRound(total_risk, 10000, self.capital),
          max_drawdown_percent |-> self.max_drawdown_percent,
          within_limits        |-> within_limits,
          all_checks_passed    |-> position_count_ok /\ within_limits ]

\* RiskManager.calculate_trailing_stop; profit_locked in hundredths, the result
\* None or the new stop in cents
calculate_trailing_stop(entry_price, current_price, signal_type, atr, profit_locked) ==
    IF signal_type = "BUY"
    THEN IF current_price <= entry_price THEN None
         ELSE LET trailing_sl == 100 * current_price - atr * profit_locked
              IN  IF trailing_sl < 100 * entry_price
                  THEN Some(MulDivRound(entry_price, 1001, 1000))
                  ELSE Some(RoundDiv(trailing_sl, 100))
    ELSE IF current_price >= entry_price THEN None
         ELSE LET trailing_sl == 100 * current_price + atr * profit_locked
              IN  IF trailing_sl > 100 * entry_price
                  THEN Some(MulDivRound(entry_price, 999, 1000))
                  ELSE Some(RoundDiv(trailing_sl, 100))

\* the LEVEL method chosen whenever either level is supplied
SlMethodEitherLevel(signal_type, support_level, resistance_level) ==
    IF Truthy(support_level) \/ Truthy(resistance_level) THEN "LEVEL" ELSE "ATR"

\* the stop-loss method full_risk_analysis selects
SlMethod(signal_type, support_level, resistance_level) ==
    IF signal_type = "BUY" /\ Truthy(support_level) THEN "LEVEL"
    ELSE IF signal_type = "SELL" /\ Truthy(resistance_level) THEN "LEVEL"
    ELSE "ATR"

\* RiskManager.full_risk_analysis
full_risk_analysis(self, entry_price, signal_type, atr, support_level, resistance_level) ==
    With([stop_loss \in {calculate_stop_loss(entry_price, signal_type, atr, support_level,
             resistance_level, SlMethod(signal_type, support_level, resistance_level))} |->
    With([take_profits \in {calculate_take_profits(entry_price, stop_loss, signal_type,
             resistance_level, support_level)} |->
    With([risk_reward \in {calculate_risk_reward(self, entry_price, stop_loss, take_profits)} |->
    With([position_size \in {calculate_position_size(self, entry_price, stop_loss)} |->
    With([daily_check \in {check_daily_loss_limit(self, risk_reward.risk_amount)} |->
    With([portfolio_check \in {check_portfolio_risk(self, risk_reward.risk_amount, 5)} |->
        [ stop_loss       |-> stop_loss,
          take_profit     |-> [ n \in {"tp1", "tp2", "tp3"} |->
                                  [ price            |-> take_profits[n].price,
                                    distance_pips    |-> take_profits[n].distance_pips,
                                    ratio            |-> take_profits[n].ratio,
                                    position_percent |-> take_profits[n].position_percentage ] ],
          risk_reward     |-> risk_reward,
          position_sizing |-> [ units             |-> position_size.units,
                                lot_size          |-> position_size.lot_size,
                                position_value    |-> position_size.position_value,
                                leverage_required |-> position_size.leverage_required ],
          risk_checks     |-> [ daily_limit     |-> daily_check,
                                portfolio_limit |-> portfolio_check,
                                all_passed      |-> daily_check.allowed
                                                    /\ portfolio_check.all_checks_passed ] ]
    ])])])])])])

-----------------------------------------------------------------------------
(* TechnicalAnalysis -- app/core/technical_analysis.py                     *)
(* The talib series are inputs: a market m carries the last values of the  *)
(* indicator series; the classification of each is the code's.  A value    *)
(* talib leaves undefined (NaN: SMA200 under 200 candles, the previous     *)
(* SMA50 at exactly 50) is None, and every comparison with it is false.    *)

\* the last value of a talib series with the given lookback: NaN under it
Last(value, candles, lookback) == IF candles < lookback THEN None ELSE Some(value)

\* a > b on floats that may be NaN
Gt(a, b) == a # None /\ b # None /\ a[1] > b[1]

\* TechnicalAnalysis.calculate_rsi
calculate_rsi(current_rsi) ==
    [ value          |-> current_rsi,
      interpretation |-> IF current_rsi > 70 THEN "Overbought"
                         ELSE IF current_rsi < 30 THEN "Oversold"
                         ELSE IF 40 <= current_rsi /\ current_rsi <= 60 THEN "Neutral zone"
                         ELSE "Moderate",
      signal         |-> IF current_rsi > 70 THEN "SELL"
                         ELSE IF current_rsi < 30 THEN "BUY"
                         ELSE "NEUTRAL" ]

\* TechnicalAnalysis.calculate_macd
calculate_macd(current_macd, current_signal, current_hist, prev_hist) ==
    LET kind == IF current_hist > 0 /\ prev_hist <= 0 THEN "Bullish crossover"
                ELSE IF current_hist < 0 /\ prev_hist >= 0 THEN "Bearish crossover"
                ELSE IF current_macd > current_signal /\ current_hist > 0
                     THEN "Bullish momentum"
                ELSE IF current_macd < current_signal /\ current_hist < 0
                     THEN "Bearish momentum"
                ELSE "Neutral"
    IN  [ macd           |-> current_macd,
          signal         |-> current_signal,
          histogram      |-> current_hist,
          interpretation |-> kind,
          signal_type    |-> IF kind \in {"Bullish crossover", "Bullish momentum"} THEN "BUY"
                             ELSE IF kind \in {"Bearish crossover", "Bearish momentum"}
                                  THEN "SELL"
                             ELSE "NEUTRAL" ]

\* f"{x:.1f}" of the rational n / d >= 0
Fmt1Frac(n, d) ==
    LET t == RoundDiv(10 * n, d)
    IN  FmtInt(t \div 10) \o << "." >> \o FmtInt(t % 10)

\* TechnicalAnalysis.calculate_bollinger_bands (upper > lower)
calculate_bollinger_bands(current_price, current_upper, current_middle, current_lower) ==
    LET band_width == current_upper - current_lower
    IN  [ upper          |-> current_upper,
          middle         |-> current_middle,
          lower          |-> current_lower,
          bandwidth      |-> band_width,
          interpretation |->
              IF current_price >= current_upper THEN S_BB_UPPER
              ELSE IF current_price <= current_lower THEN S_BB_LOWER
              ELSE IF 50 * band_width < current_middle THEN S_BB_SQUEEZE
              ELSE S_BB_PRICE_AT
                   \o Fmt1Frac(100 * (current_price - current_lower), band_width)
                   \o S_BB_OF_WIDTH,
          signal         |-> IF current_price >= current_upper THEN "SELL"
                             ELSE IF current_price <= current_lower THEN "BUY"
                             ELSE "NEUTRAL" ]

\* TechnicalAnalysis.calculate_moving_averages
calculate_moving_averages(current_price, current_ema21, current_sma50, current_sma200, prev_ema21, prev_sma50) ==
    \* current_sma200 and prev_sma50 are optional (NaN below their lookback)
    LET p   == Some(current_price)
        e   == Some(current_ema21)
        s50 == Some(current_sma50)
        up  == Gt(p, e) /\ Gt(e, s50)
        dn  == Gt(e, p) /\ Gt(s50, e)
        trend == IF up /\ Gt(s50, current_sma200) THEN S_STRONG_UPTREND
                 ELSE IF dn /\ Gt(current_sma200, s50) THEN S_STRONG_DOWNTREND
                 ELSE IF up THEN S_UPTREND
                 ELSE IF dn THEN S_DOWNTREND
                 ELSE S_SIDEWAYS
    IN  [ ema21     |-> current_ema21,
          sma50     |-> current_sma50,
          sma200    |-> current_sma200,
          trend     |-> trend,
          signal    |-> IF trend \in {S_STRONG_UPTREND, S_UPTREND} THEN "BUY"
                        ELSE IF trend \in {S_STRONG_DOWNTREND, S_DOWNTREND} THEN "SELL"
                        ELSE "NEUTRAL",
          crossover |-> IF Gt(prev_sma50, Some(prev_ema21)) /\ Gt(e, s50)
                        THEN Some(S_GOLDEN_CROSS)
                        ELSE IF Gt(Some(prev_ema21), prev_sma50) /\ Gt(s50, e)
                        THEN Some(S_DEATH_CROSS)
                        ELSE None ]

\* TechnicalAnalysis.calculate_atr: buckets of atr_percent = atr / price * 100
calculate_atr(current_atr, current_price) ==
    [ atr        |-> current_atr,
      volatility |-> IF 100 * current_atr < current_price THEN "LOW"
                     ELSE IF 100 * current_atr < 3 * current_price THEN "NORMAL"
                     ELSE IF 100 * current_atr < 5 * current_price THEN "HIGH"
                     ELSE "EXTREME" ]

\* the retracement levels in dict order: << key, parts per thousand of high - low >>
FibLevels ==
    << << "0.0", 0 >>, << "23.6", 236 >>, << "38.2", 382 >>, << "50.0", 500 >>,
       << "61.8", 618 >>, << "78.6", 786 >>, << "100.0", 1000 >> >>

\* 1000 * |level - current_price| for the i-th level
FibDistance(i, high, low, current_price) ==
    Abs(1000 * high - (high - low) * FibLevels[i][2] - 1000 * current_price)

\* TechnicalAnalysis.calculate_fibonacci_levels: min() keeps the first nearest level
calculate_fibonacci_levels(high, low, current_price) ==
    LET best == CHOOSE i \in 1..7 :
                    \A j \in 1..7 :
                        \/ FibDistance(i, high, low, current_price)
                             < FibDistance(j, high, low, current_price)
                        \/ /\ FibDistance(i, high, low, current_price)
                                = FibDistance(j, high, low, current_price)
                           /\ i <= j
    IN  [ high          |-> high,
          low           |-> low,
          nearest_level |-> FibLevels[best][1] ]

\* TechnicalAnalysis.calculate_adx
calculate_adx(current_adx, current_plus_di, current_minus_di) ==
    [ adx       |-> current_adx,
      strength  |-> IF current_adx < 20 THEN "WEAK"
                    ELSE IF current_adx < 40 THEN "MODERATE"
                    ELSE IF current_adx < 60 THEN "STRONG"
                    ELSE "VERY STRONG",
      direction |-> IF current_plus_di > current_minus_di THEN "BULLISH" ELSE "BEARISH" ]

\* TechnicalAnalysis.calculate_stochastic
calculate_stochastic(current_k, current_d, prev_k, prev_d) ==
    LET kind == IF prev_k < prev_d /\ current_k > current_d /\ current_k < 20
                THEN "Bullish crossover in oversold zone"
                ELSE IF prev_k > prev_d /\ current_k < current_d /\ current_k > 80
                THEN "Bearish crossover in overbought zone"
                ELSE IF current_k > 80 THEN "Overbought"
                ELSE IF current_k < 20 THEN "Oversold"
                ELSE "Neutral"
    IN  [ k              |-> current_k,
          d              |-> current_d,
          interpretation |-> kind,
          signal         |-> IF kind \in {"Bullish crossover in oversold zone", "Oversold"}
                             THEN "BUY"
                             ELSE IF kind = "Neutral" THEN "NEUTRAL"
                             ELSE "SELL" ]

\* TechnicalAnalysis.analyze_volume: buckets of ratio = volume / average (average > 0)
analyze_volume(current_volume, current_avg) ==
    [ interpretation |-> IF 2 * current_volume > 3 * current_avg
                         THEN "High volume - strong interest"
                         ELSE IF 2 * current_volume < current_avg
                         THEN "Low volume - weak interest"
                         ELSE "Normal volume",
      signal         |-> IF 2 * current_volume > 3 * current_avg THEN "CONFIRM"
                         ELSE IF 2 * current_volume < current_avg THEN "CAUTION"
                         ELSE "NEUTRAL" ]

\* TechnicalAnalysis.full_analysis
full_analysis(m) ==
    [ rsi             |-> calculate_rsi(m.rsi),
      macd            |-> calculate_macd(m.macd, m.macd_signal, m.macd - m.macd_signal,
                                         m.prev_hist),
      bollinger_bands |-> calculate_bollinger_bands(m.close, m.bb_upper, m.bb_middle,
                                                    m.bb_lower),
      moving_averages |-> calculate_moving_averages(m.close, m.ema21, m.sma50,
                             Last(m.sma200, m.candles, 200), m.prev_ema21,
                             Last(m.prev_sma50, m.candles, 51)),
      atr             |-> calculate_atr(m.atr, m.close),
      fibonacci       |-> calculate_fibonacci_levels(m.fib_high, m.fib_low, m.close),
      adx             |-> calculate_adx(m.adx, m.plus_di, m.minus_di),
      stochastic      |-> calculate_stochastic(m.k, m.d, m.prev_k, m.prev_d),
      volume          |-> analyze_volume(m.volume, m.avg_volume) ]

-----------------------------------------------------------------------------
(* ChartAnalyzer -- app/core/chart_analyzer.py                             *)
(* The detected patterns and support/resistance levels are inputs.         *)

RECURSIVE NearestSupportAnySide(_, _, _)
\* NearestSupport that takes the highest support, whichever side of the price
NearestSupportAnySide(sr_levels, current_price, nearest) ==
    IF sr_levels = << >> THEN nearest
    ELSE LET level == Head(sr_levels)
             take  == /\ level.level_type = "SUPPORT"
                      /\ (nearest = None \/ level.price > nearest[1].price)
         IN  NearestSupportAnySide(Tail(sr_levels), current_price,
                                   IF take THEN Some(level) ELSE nearest)

RECURSIVE NearestSupport(_, _, _)
\* the loop of full_chart_analysis over sr_levels, support side
NearestSupport(sr_levels, current_price, nearest) ==
    IF sr_levels = << >> THEN nearest
    ELSE LET level == Head(sr_levels)
             take  == /\ level.level_type = "SUPPORT"
                      /\ level.price < current_price
                      /\ (nearest = None \/ level.price > nearest[1].price)
         IN  NearestSupport(Tail(sr_levels), current_price,
                            IF take THEN Some(level) ELSE nearest)

RECURSIVE NearestResistance(_, _, _)
\* the loop of full_chart_analysis over sr_levels, resistance side
NearestResistance(sr_levels, current_price, nearest) ==
    IF sr_levels = << >> THEN nearest
    ELSE LET level == Head(sr_levels)
             take  == /\ level.level_type = "RESISTANCE"
                      /\ level.price > current_price
                      /\ (nearest = None \/ level.price < nearest[1].price)
         IN  NearestResistance(Tail(sr_levels), current_price,
                               IF take THEN Some(level) ELSE nearest)

\* ChartAnalyzer.full_chart_analysis
full_chart_analysis(m) ==
    LET nearest_support    == NearestSupport(m.sr_levels, m.close, None)
        nearest_resistance == NearestResistance(m.sr_levels, m.close, None)
    IN  [ patterns           |-> m.patterns,
          nearest_support    |->
              IF nearest_support = None THEN None
              ELSE Some([ price    |-> nearest_support[1].price,
                          strength |-> nearest_support[1].strength ]),
          nearest_resistance |->
              IF nearest_resistance = None THEN None
              ELSE Some([ price    |-> nearest_resistance[1].price,
                          strength |-> nearest_resistance[1].strength ]),
          current_price      |-> m.close ]

-----------------------------------------------------------------------------
(* SignalGenerator -- app/core/signal_generator.py *)

min_confluence_for_trade == 2

min_quality_score == 50

\* the accumulators of generate_signal
NoVotes == [ bullish_signals |-> 0, bearish_signals |-> 0,
             confluences |-> << >>, warnings |-> << >> ]

\* bullish_signals += n; confluences.append(reason)
Bullish(acc, n, reason) ==
    [ acc EXCEPT !.bullish_signals = @ + n, !.confluences = Append(@, reason) ]

\* bearish_signals += n; confluences.append(reason)
Bearish(acc, n, reason) ==
    [ acc EXCEPT !.bearish_signals = @ + n, !.confluences = Append(@, reason) ]

\* confluences.append(reason)
Confluence(acc, reason) == [ acc EXCEPT !.confluences = Append(@, reason) ]

\* warnings.append(w)
Warning(acc, w) == [ acc EXCEPT !.warnings = Append(@, w) ]

\* trend vote
VoteTrend(acc, ma_data) ==
    IF Contains(S_UPTREND, ma_data.trend)
    THEN Bullish(acc, 2, << "Trend", ma_data.trend >>)
    ELSE IF Contains(S_DOWNTREND, ma_data.trend)
    THEN Bearish(acc, 2, << "Trend", ma_data.trend >>)
    ELSE Warning(acc, W_SIDEWAYS)

\* moving-average crossover vote
VoteCrossover(acc, ma_data) ==
    IF ma_data.crossover = None THEN acc
    ELSE IF Contains(S_GOLDEN, ma_data.crossover[1])
    THEN Bullish(acc, 1, ma_data.crossover[1])
    ELSE IF Contains(S_DEATH, ma_data.crossover[1])
    THEN Bearish(acc, 1, ma_data.crossover[1])
    ELSE acc

\* VoteRsi that also notes an RSI outside the neutral zone
VoteRsiModerate(acc, rsi_data) ==
    IF rsi_data.signal = "BUY"
    THEN Bullish(acc, 1, << "RSI oversold", rsi_data.value >>)
    ELSE IF rsi_data.signal = "SELL"
    THEN Bearish(acc, 1, << "RSI overbought", rsi_data.value >>)
    ELSE IF 40 <= rsi_data.value /\ rsi_data.value <= 60
    THEN Confluence(acc, << "RSI neutral", rsi_data.value >>)
    ELSE Confluence(acc, << "RSI moderate", rsi_data.value >>)

\* RSI vote
VoteRsi(acc, rsi_data) ==
    IF rsi_data.signal = "BUY"
    THEN Bullish(acc, 1, << "RSI oversold", rsi_data.value >>)
    ELSE IF rsi_data.signal = "SELL"
    THEN Bearish(acc, 1, << "RSI overbought", rsi_data.value >>)
    ELSE IF 40 <= rsi_data.value /\ rsi_data.value <= 60
    THEN Confluence(acc, << "RSI neutral", rsi_data.value >>)
    ELSE acc

\* MACD vote
VoteMacd(acc, macd_data) ==
    IF macd_data.signal_type = "BUY"
    THEN Bullish(acc, 1, << "MACD", macd_data.interpretation >>)
    ELSE IF macd_data.signal_type = "SELL"
    THEN Bearish(acc, 1, << "MACD", macd_data.interpretation >>)
    ELSE acc

\* Bollinger vote and squeeze warning
VoteBollinger(acc, bb_data) ==
    LET voted == IF bb_data.signal = "BUY"
                 THEN Bullish(acc, 1, << "Price at lower Bollinger Band" >>)
                 ELSE IF bb_data.signal = "SELL"
                 THEN Bearish(acc, 1, << "Price at upper Bollinger Band" >>)
                 ELSE acc
    IN  IF Contains(S_SQUEEZE, Lower(bb_data.interpretation))
        THEN Warning(voted, W_SQUEEZE) ELSE voted

\* an ADX vote that a MODERATE strength casts too
VoteAdxModerate(acc, adx_data) ==
    IF adx_data.strength \in {"MODERATE", "STRONG", "VERY STRONG"}
    THEN IF adx_data.direction = "BULLISH"
         THEN Bullish(acc, 1, << "ADX: Strong uptrend", adx_data.adx >>)
         ELSE IF adx_data.direction = "BEARISH"
         THEN Bearish(acc, 1, << "ADX: Strong downtrend", adx_data.adx >>)
         ELSE acc
    ELSE IF adx_data.strength = "WEAK"
    THEN Warning(acc, W_WEAK_ADX(adx_data.adx))
    ELSE acc

\* ADX vote and weak-trend warning
VoteAdx(acc, adx_data) ==
    IF adx_data.strength \in {"STRONG", "VERY STRONG"}
    THEN IF adx_data.direction = "BULLISH"
         THEN Bullish(acc, 1, << "ADX: Strong uptrend", adx_data.adx >>)
         ELSE IF adx_data.direction = "BEARISH"
         THEN Bearish(acc, 1, << "ADX: Strong downtrend", adx_data.adx >>)
         ELSE acc
    ELSE IF adx_data.strength = "WEAK"
    THEN Warning(acc, W_WEAK_ADX(adx_data.adx))
    ELSE acc

\* Stochastic vote
VoteStochastic(acc, stoch_data) ==
    IF stoch_data.signal = "BUY"
    THEN Bullish(acc, 1, << "Stochastic", stoch_data.interpretation >>)
    ELSE IF stoch_data.signal = "SELL"
    THEN Bearish(acc, 1, << "Stochastic", stoch_data.interpretation >>)
    ELSE acc

\* volume confirmation or low-volume warning
VoteVolume(acc, volume_data) ==
    IF volume_data.signal = "CONFIRM"
    THEN Confluence(acc, << "High volume confirmation" >>)
    ELSE IF volume_data.signal = "CAUTION"
    THEN Warning(acc, W_LOW_VOLUME)
    ELSE acc

RECURSIVE VotePatterns(_, _)
\* the loop over chart_data["patterns"]
VotePatterns(acc, patterns) ==
    IF patterns = << >> THEN acc
    ELSE LET pattern == Head(patterns)
         IN  VotePatterns(
                 IF pattern.signal = "BUY"
                 THEN Bullish(acc, 1, << "Pattern", pattern.name >>)
                 ELSE IF pattern.signal = "SELL"
                 THEN Bearish(acc, 1, << "Pattern", pattern.name >>)
                 ELSE acc,
                 Tail(patterns))

\* distance_to_support < 1, with distance = (current_price - price) / current_price * 100
NearSupport(current_price, price) == 100 * (current_price - price) < current_price

\* distance_to_resistance < 1
NearResistance(current_price, price) == 100 * (price - current_price) < current_price

\* support / resistance proximity votes
VoteLevels(acc, chart_data, current_price) ==
    LET nearest_support    == chart_data.nearest_support
        nearest_resistance == chart_data.nearest_resistance
        a1 == IF nearest_support # None
                 /\ NearSupport(current_price, nearest_support[1].price)
              THEN Bullish(acc, 1, << "Price at support level", nearest_support[1].price >>)
              ELSE acc
    IN  IF nearest_resistance # None
           /\ NearResistance(current_price, nearest_resistance[1].price)
        THEN Bearish(a1, 1, << "Price at resistance level", nearest_resistance[1].price >>)
        ELSE a1

\* Fibonacci confluence
VoteFibonacci(acc, fib_data) ==
    IF fib_data.nearest_level \in {"38.2", "50.0", "61.8"}
    THEN Confluence(acc, << "Price near Fibonacci", fib_data.nearest_level >>)
    ELSE acc

\* volatility warning
VoteVolatility(acc, atr_data) ==
    IF atr_data.volatility \in {"HIGH", "EXTREME"}
    THEN Warning(acc, W_VOLATILITY(atr_data.volatility))
    ELSE acc

\* the votes of generate_signal, in the code's order
Votes(technical_data, chart_data, current_price) ==
    LET a1  == VoteTrend(NoVotes, technical_data.moving_averages)
        a2  == VoteCrossover(a1, technical_data.moving_averages)
        a3  == VoteRsi(a2, technical_data.rsi)
        a4  == VoteMacd(a3, technical_data.macd)
        a5  == VoteBollinger(a4, technical_data.bollinger_bands)
        a6  == VoteAdx(a5, technical_data.adx)
        a7  == VoteStochastic(a6, technical_data.stochastic)
        a8  == VoteVolume(a7, technical_data.volume)
        a9  == VotePatterns(a8, chart_data.patterns)
        a10 == VoteLevels(a9, chart_data, current_price)
        a11 == VoteFibonacci(a10, technical_data.fibonacci)
    IN  VoteVolatility(a11, technical_data.atr)

\* the quality score with the trend-strength bonus granted from each threshold on
CalculateQualityScoreFrom(confluence_count, trend_strength, volume_signal, pattern_count) ==
    Min(  Min(confluence_count * 8, 40)
        + (IF trend_strength >= 40 THEN 30
           ELSE IF trend_strength >= 25 THEN 20
           ELSE IF trend_strength >= 15 THEN 10 ELSE 0)
        + (IF volume_signal = "CONFIRM" THEN 15
           ELSE IF volume_signal = "NEUTRAL" THEN 7 ELSE 0)
        + Min(pattern_count * 5, 15),
        100)

\* SignalGenerator._calculate_quality_score
CalculateQualityScore(confluence_count, trend_strength, volume_signal, pattern_count) ==
    Min(  Min(confluence_count * 8, 40)
        + (IF trend_strength > 40 THEN 30
           ELSE IF trend_strength > 25 THEN 20
           ELSE IF trend_strength > 15 THEN 10 ELSE 0)
        + (IF volume_signal = "CONFIRM" THEN 15
           ELSE IF volume_signal = "NEUTRAL" THEN 7 ELSE 0)
        + Min(pattern_count * 5, 15),
        100)

\* the signal_type of generate_signal
SignalType(bullish_signals, bearish_signals) ==
    IF bullish_signals > bearish_signals THEN "BUY"
    ELSE IF bearish_signals > bullish_signals THEN "SELL"
    ELSE "HOLD"

\* the confidence without its cap at 100
ConfidenceUncapped(bullish_signals, bearish_signals, confluence_count) ==
    IF bullish_signals > bearish_signals
    THEN RoundDiv(bullish_signals * 3000, Max(1, bearish_signals))
             + confluence_count * 1000
    ELSE IF bearish_signals > bullish_signals
    THEN RoundDiv(bearish_signals * 3000, Max(1, bullish_signals))
             + confluence_count * 1000
    ELSE 4000

\* the confidence of generate_signal, in hundredths
Confidence(bullish_signals, bearish_signals, confluence_count) ==
    IF bullish_signals > bearish_signals
    THEN Min(10000, RoundDiv(bullish_signals * 3000, Max(1, bearish_signals))
                      + confluence_count * 1000)
    ELSE IF bearish_signals > bullish_signals
    THEN Min(10000, RoundDiv(bearish_signals * 3000, Max(1, bullish_signals))
                      + confluence_count * 1000)
    ELSE 4000

\* SignalGenerator._create_entry_description
CreateEntryDescription(signal_type, technical_data, top_confluences) ==
    (IF signal_type = "BUY"
     THEN << << "Price above EMA21", technical_data.moving_averages.ema21 >>,
             << "RSI", technical_data.rsi.value >> >>
     ELSE IF signal_type = "SELL"
     THEN << << "Price below EMA21", technical_data.moving_averages.ema21 >>,
             << "RSI", technical_data.rsi.value >> >>
     ELSE << << "No clear directional bias" >> >>)
    \o (IF top_confluences # << >>
        THEN << << "Confluences", SubSeq(top_confluences, 1, Min(2, Len(top_confluences))) >> >>
        ELSE << >>)

\* SignalGenerator.generate_signal -> TradingSignal
generate_signal(technical_data, chart_data, current_price) ==
    LET acc              == Votes(technical_data, chart_data, current_price)
        confluence_count == Len(acc.confluences)
        signal_type      == SignalType(acc.bullish_signals, acc.bearish_signals)
        quality_score    == CalculateQualityScore(confluence_count, technical_data.adx.adx,
                                technical_data.volume.signal, Len(chart_data.patterns))
    IN  [ signal_type       |-> signal_type,
          confidence        |-> Confidence(acc.bullish_signals, acc.bearish_signals,
                                           confluence_count),
          strength          |-> IF quality_score >= 80 THEN "STRONG"
                                ELSE IF quality_score >= 60 THEN "MODERATE"
                                ELSE "WEAK",
          quality_score     |-> quality_score,
          confluence_count  |-> confluence_count,
          entry_price       |-> current_price,
          entry_description |-> CreateEntryDescription(signal_type, technical_data,
                                    SubSeq(acc.confluences, 1, Min(3, confluence_count))),
          entry_trigger     |-> IF confluence_count >= 4 /\ quality_score >= 70
                                THEN "IMMEDIATE"
                                ELSE IF confluence_count >= 2 THEN "WAIT_CONFIRMATION"
                                ELSE "PULLBACK",
          reasons           |-> acc.confluences,
          warnings          |-> acc.warnings ]

\* the critical_warnings of validate_signal_quality
CriticalWarnings(warnings) ==
    SelectSeq(warnings,
              LAMBDA w : Contains(T_EXTREME, Upper(w)) \/ Contains(T_CAUTION, Upper(w)))

\* the passed flag of validate_signal_quality: only the two thresholds clear it
Passed(signal) ==
    /\ ~ (signal.confluence_count < min_confluence_for_trade)
    /\ ~ (signal.quality_score < min_quality_score)

\* SignalGenerator.validate_signal_quality
validate_signal_quality(signal) ==
    LET critical_warnings == CriticalWarnings(signal.warnings)
    IN  [ passed           |-> Passed(signal),
          quality_score    |-> signal.quality_score,
          confluence_count |-> signal.confluence_count,
          issues           |->
              (IF signal.confluence_count < min_confluence_for_trade
               THEN << << "Insufficient confluences", signal.confluence_count,
                          min_confluence_for_trade >> >>
               ELSE << >>)
              \o (IF signal.quality_score < min_quality_score
                  THEN << << "Quality score too low", signal.quality_score,
                             min_quality_score >> >>
                  ELSE << >>)
              \o (IF critical_warnings # << >>
                  THEN << << "Critical warnings present", critical_warnings >> >>
                  ELSE << >>),
          recommendation   |-> IF Passed(signal) THEN "TRADE" ELSE "SKIP" ]

-----------------------------------------------------------------------------
(* TradingAgent -- app/core/trading_agent.py *)

\* TradingAgent._create_execution_checklist; risk_data is None or Some(...)
CreateExecutionChecklist(signal, technical_data, risk_data) ==
    LET price_action_confirmed == signal.confluence_count >= 2
        momentum_aligned       == \/ technical_data.rsi.signal # "NEUTRAL"
                                  \/ technical_data.macd.signal_type # "NEUTRAL"
        volatility_acceptable  == technical_data.atr.volatility # "EXTREME"
        trend_strength_ok      == technical_data.adx.strength # "WEAK"
        risk_reward_positive   == IF risk_data # None
                                  THEN risk_data[1].risk_reward.ratio >= 150
                                  ELSE FALSE
        risk_limits_ok         == IF risk_data # None
                                  THEN risk_data[1].risk_checks.all_passed
                                  ELSE FALSE
    IN  [ price_action_confirmed |-> price_action_confirmed,
          momentum_aligned       |-> momentum_aligned,
          volatility_acceptable  |-> volatility_acceptable,
          trend_strength_ok      |-> trend_strength_ok,
          risk_reward_positive   |-> risk_reward_positive,
          risk_limits_ok         |-> risk_limits_ok,
          all_ready              |-> /\ price_action_confirmed
                                     /\ momentum_aligned
                                     /\ volatility_acceptable
                                     /\ risk_reward_positive
                                     /\ risk_limits_ok ]

\* TradingAgent._generate_recommendations
GenerateRecommendations(signal, technical_data, chart_data, risk_data, quality_validation) ==
    LET strong_patterns == SelectSeq(chart_data.patterns, LAMBDA p : p.confidence >= 80)
    IN  << IF signal.entry_trigger = "IMMEDIATE"
           THEN << "Entry at current price", signal.signal_type, signal.entry_price >>
           ELSE IF signal.entry_trigger = "WAIT_CONFIRMATION"
           THEN << "Entry: wait for confirmation", signal.signal_type >>
           ELSE << "Entry: wait for pullback", signal.signal_type >> >>
        \o (IF risk_data # None
            THEN << << "Risk/Reward", risk_data[1].risk_reward.ratio,
                       risk_data[1].risk_reward.status >> >>
            ELSE << >>)
        \o (IF technical_data.atr.volatility \in {"HIGH", "EXTREME"}
            THEN << << "Reduce position size by 50%", technical_data.atr.volatility >> >>
            ELSE << >>)
        \o (IF Contains(S_STRONG, technical_data.moving_averages.trend)
            THEN << << "Favorable for trend following",
                       technical_data.moving_averages.trend >> >>
            ELSE IF technical_data.moving_averages.trend = S_SIDEWAYS
            THEN << << "Sideways market" >> >>
            ELSE << >>)
        \o (IF strong_patterns # << >>
            THEN << << "Strong patterns detected",
                       [ i \in 1..Min(2, Len(strong_patterns)) |-> strong_patterns[i].name ] >> >>
            ELSE << >>)
        \o (IF ~ quality_validation.passed
            THEN << << "Signal quality below threshold - SKIP" >> >>
                 \o (IF quality_validation.issues # << >>
                     THEN << << "Issues", SubSeq(quality_validation.issues, 1,
                                    Min(2, Len(quality_validation.issues))) >> >>
                     ELSE << >>)
            ELSE << >>)
        \o (IF quality_validation.passed /\ risk_data # None
            THEN IF risk_data[1].risk_checks.all_passed
                 THEN << << "All checks passed" >> >>
                 ELSE << << "Risk limits exceeded" >> >>
            ELSE << >>)

\* RiskData that drops the plan when a limit check fails
RiskDataBehindLimits(self, m, technical_data, chart_data, signal, quality_validation) ==
    IF quality_validation.passed
    THEN LET support_level    == IF chart_data.nearest_support # None
                                 THEN Some(chart_data.nearest_support[1].price)
                                 ELSE None
             resistance_level == IF chart_data.nearest_resistance # None
                                 THEN Some(chart_data.nearest_resistance[1].price)
                                 ELSE None
             risk             == full_risk_analysis(self, m.close, signal.signal_type,
                                     technical_data.atr.atr, support_level,
                                     resistance_level)
         IN  IF risk.risk_checks.all_passed THEN Some(risk) ELSE None
    ELSE None

\* the risk_data of analyze: the risk cascade runs only behind the quality gate
RiskData(self, m, technical_data, chart_data, signal, quality_validation) ==
    IF quality_validation.passed
    THEN LET support_level    == IF chart_data.nearest_support # None
                                 THEN Some(chart_data.nearest_support[1].price)
                                 ELSE None
             resistance_level == IF chart_data.nearest_resistance # None
                                 THEN Some(chart_data.nearest_resistance[1].price)
                                 ELSE None
         IN  Some(full_risk_analysis(self, m.close, signal.signal_type,
                                     technical_data.atr.atr, support_level,
                                     resistance_level))
    ELSE None

\* whether analyze raises: talib rejects input arrays of different lengths
AnalyzeRaises(m) == ~ m.lengths_match

\* SignalGenerator.generate_llm_analysis around LLMProvider.generate_analysis_sync:
\* the collaborator's text, or the placeholder when it raised
LlmAnalysis(answer) ==
    [ llm_analysis |-> IF answer = "raised" THEN "Error generating analysis"
                       ELSE "recommendation text",
      model        |-> "g4f" ]

\* the dict TradingAgent.analyze returns (the timestamp aside) for a market that
\* does not make it raise, given the collaborator's answer
Analysis(self, symbol, timeframe, m, answer) ==
    With([technical_data \in {full_analysis(m)} |->
    With([chart_data \in {full_chart_analysis(m)} |->
    With([signal \in {generate_signal(technical_data, chart_data, m.close)} |->
    With([quality_validation \in {validate_signal_quality(signal)} |->
    With([risk_data \in {RiskData(self, m, technical_data, chart_data, signal,
             quality_validation)} |->
        [ metadata            |-> [ symbol |-> symbol, timeframe |-> timeframe,
                                    current_price |-> m.close ],
          signal              |-> [ type             |-> signal.signal_type,
                                    confidence       |-> signal.confidence,
                                    strength         |-> signal.strength,
                                    quality_score    |-> signal.quality_score,
                                    confluence_count |-> signal.confluence_count ],
          entry               |-> [ price       |-> signal.entry_price,
                                    description |-> signal.entry_description,
                                    trigger     |-> signal.entry_trigger ],
          stop_loss           |-> IF risk_data # None
                                  THEN Some(risk_data[1].stop_loss) ELSE None,
          take_profit         |-> IF risk_data # None
                                  THEN Some(risk_data[1].take_profit) ELSE None,
          risk_reward         |-> IF risk_data # None
                                  THEN Some(risk_data[1].risk_reward) ELSE None,
          position_sizing     |-> IF risk_data # None
                                  THEN Some(risk_data[1].position_sizing) ELSE None,
          technical_details   |-> [ indicators |-> technical_data,
                                    patterns   |-> chart_data.patterns,
                                    support    |-> chart_data.nearest_support,
                                    resistance |-> chart_data.nearest_resistance ],
          execution_checklist |-> CreateExecutionChecklist(signal, technical_data, risk_data),
          recommendations     |-> GenerateRecommendations(signal, technical_data, chart_data,
                                      risk_data, quality_validation),
          llm_analysis        |-> LlmAnalysis(answer),
          warnings            |-> signal.warnings,
          quality_validation  |-> quality_validation,
          risk_checks         |-> IF risk_data # None
                                  THEN Some(risk_data[1].risk_checks) ELSE None ]
    ])])])])])

\* the record analyze appends to self.analysis_history
AnalysisRecord(analysis) ==
    [ symbol     |-> analysis.metadata.symbol,
      signal     |-> analysis.signal.type,
      confidence |-> analysis.signal.confidence ]

\* HistoryAfter that keeps the newest record first
HistoryAfterNewestFirst(history, analysis) == << AnalysisRecord(analysis) >> \o history

\* self.analysis_history after analyze returned analysis
HistoryAfter(history, analysis) == Append(history, AnalysisRecord(analysis))

\* RiskManagerAfter that books the analysed trade's risk as a daily loss
RiskManagerAfterBooking(self, risk_data) ==
    IF risk_data = None THEN self
    ELSE [ self EXCEPT !.daily_losses = @ + risk_data[1].daily_limit.potential_loss ]

\* the RiskManager after analyze ran full_risk_analysis on it: none of the
\* risk operations assigns capital, daily_losses or open_positions
RiskManagerAfter(self, risk_data) == self

-----------------------------------------------------------------------------
(* Inputs *)

\* analyze calls made on one TradingAgent
MaxAnalyses == 2

\* /analyze requests in flight on the one event loop
NumRequests == 2

\* settings.default_capital (10000), in cents
default_capital == 1000000

\* a quiet market: no trend, RSI 50, price on the 50% retracement
FlatMarket ==
    [ candles |-> 250, lengths_match |-> TRUE, close |-> 10000,
      rsi |-> 50, macd |-> 0, macd_signal |-> 0, prev_hist |-> 0,
      bb_upper |-> 10400, bb_middle |-> 10000, bb_lower |-> 9600,
      ema21 |-> 10000, sma50 |-> 10000, sma200 |-> 10000,
      prev_ema21 |-> 10000, prev_sma50 |-> 10000,
      atr |-> 150, adx |-> 30, plus_di |-> 25, minus_di |-> 20,
      k |-> 50, d |-> 50, prev_k |-> 50, prev_d |-> 50,
      volume |-> 100, avg_volume |-> 100,
      fib_high |-> 11000, fib_low |-> 9000,
      patterns |-> << >>, sr_levels |-> << >> ]

\* price over rising averages, oversold oscillators turning up
BullMarket ==
    [ FlatMarket EXCEPT !.ema21 = 9900, !.sma50 = 9800, !.sma200 = 9700,
                        !.prev_ema21 = 9890, !.prev_sma50 = 9795,
                        !.rsi = 25, !.macd = 5, !.macd_signal = 2, !.prev_hist = 1,
                        !.k = 15, !.d = 12, !.prev_k = 10, !.prev_d = 11 ]

\* the mirror image
BearMarket ==
    [ FlatMarket EXCEPT !.ema21 = 10100, !.sma50 = 10200, !.sma200 = 10300,
                        !.prev_ema21 = 10110, !.prev_sma50 = 10205,
                        !.rsi = 75, !.macd = 2, !.macd_signal = 5, !.prev_hist = 0 - 1,
                        !.k = 85, !.d = 88, !.prev_k = 90, !.prev_d = 89,
                        !.plus_di = 20, !.minus_di = 25 ]

Level(price, level_type) ==
    [ price |-> price, level_type |-> level_type, strength |-> 4, touches |-> 2,
      recent |-> TRUE ]

\* detected support/resistance levels, strongest first as detect_support_resistance
\* returns them; levels on the wrong side of the price are among them
LevelSets ==
    { << >>,
      << Level(9950, "SUPPORT"), Level(10300, "RESISTANCE") >>,
      << Level(9500, "SUPPORT"), Level(10050, "RESISTANCE"), Level(9700, "SUPPORT"),
         Level(10200, "SUPPORT"), Level(9900, "RESISTANCE") >> }

Pattern(name, signal, confidence) ==
    [ name |-> name, type |-> "REVERSAL", confidence |-> confidence, signal |-> signal ]

PatternSets ==
    { << >>, << Pattern("Hammer", "BUY", 100), Pattern("Doji", "NEUTRAL", 100) >> }

\* the markets one analysis is run on
PipelineMarkets ==
    { [ b EXCEPT !.adx = a, !.atr = t, !.volume = v, !.sr_levels = l,
                 !.patterns = p, !.candles = c ] :
        b \in {FlatMarket, BullMarket, BearMarket}, a \in {18, 30, 45},
        t \in {150, 600}, v \in {200, 100, 40}, l \in LevelSets, p \in PatternSets,
        c \in {50, 250} }
    \cup { [ BullMarket EXCEPT !.lengths_match = FALSE ] }

\* the markets generate_signal is called on: the pipeline's, and trending markets
\* with a few votes against the trend and little else
SignalMarkets ==
    LET up   == [ FlatMarket EXCEPT !.ema21 = 9900, !.sma50 = 9800, !.sma200 = 9700,
                                    !.prev_ema21 = 9890, !.prev_sma50 = 9795,
                                    !.rsi = 65, !.fib_high = 10000, !.fib_low = 8000,
                                    !.sr_levels = << Level(10050, "RESISTANCE") >> ]
        down == [ FlatMarket EXCEPT !.ema21 = 10100, !.sma50 = 10200, !.sma200 = 10300,
                                    !.prev_ema21 = 10110, !.prev_sma50 = 10205,
                                    !.rsi = 35, !.fib_high = 10000, !.fib_low = 8000,
                                    !.sr_levels = << Level(9950, "SUPPORT") >> ]
    IN  { m \in PipelineMarkets : m.candles = 250 /\ m.lengths_match }
        \cup { [ up EXCEPT !.adx = 40 ], [ down EXCEPT !.adx = 25 ],
               [ BullMarket EXCEPT !.prev_ema21 = 9790, !.bb_lower = 10000,
                                   !.bb_middle = 10200 ],
               [ BearMarket EXCEPT !.prev_ema21 = 10210, !.bb_upper = 10000,
                                   !.bb_middle = 9800, !.adx = 65 ],
               [ up EXCEPT !.rsi = 25, !.adx = 15,
                           !.patterns = << Pattern("Shooting Star", "SELL", 100) >> ],
               [ down EXCEPT !.rsi = 75,
                             !.patterns = << Pattern("Hammer", "BUY", 100),
                                             Pattern("Doji", "NEUTRAL", 100),
                                             Pattern("Spinning Top", "NEUTRAL", 100),
                                             Pattern("Long Legged Doji", "NEUTRAL", 100) >> ] }

\* the markets of repeated analyses
AgentMarkets ==
    { [ b EXCEPT !.volume = v ] : b \in {FlatMarket, BullMarket, BearMarket},
                                  v \in {200, 100} }
    \cup { [ BullMarket EXCEPT !.lengths_match = FALSE ] }

\* TradingAgent(capital, max_risk_percent, max_daily_loss_percent) as constructed
AgentConfigs ==
    { [ capital |-> c, max_risk_percent |-> r, max_daily_loss_percent |-> 5 ] :
        c \in {default_capital, 250000}, r \in {2, 6, 20} }

Tasks == 1..NumRequests

\* clients that connect to /ws/signals
NumSockets == 2

Sockets == 1..NumSockets

NoCall == [ op |-> "none", args |-> << >>, ret |-> << >> ]

-----------------------------------------------------------------------------
(* Construction *)

\* TradingAgent.__init__ ; no request is in flight
InitAgent(cfg) ==
    /\ risk_manager = RiskManager(cfg.capital, cfg.max_risk_percent,
                                  cfg.max_daily_loss_percent, 15)
    /\ capital = cfg.capital
    /\ analysis_history = << >>
    /\ call = NoCall
    /\ pc = [ t \in Tasks |-> "idle" ]
    /\ request = [ t \in Tasks |-> None ]
    /\ response = [ t \in Tasks |-> None ]
    /\ frame = [ t \in Tasks |-> None ]
    /\ running = None
    /\ llm = "idle"
    /\ active_connections = << >>
    /\ websocket = [ s \in Sockets |-> [ pc |-> "idle", client |-> "open" ] ]

agentVars == << risk_manager, capital, analysis_history >>

wsVars == << active_connections, websocket >>

apiVars == << pc, request, response, frame, running, llm, wsVars >>

-----------------------------------------------------------------------------
(* Direct calls of the pure operations *)

SignalInputs ==
    [ signal_type : {"BUY", "SELL", "HOLD"},
      confluence_count : 0..3,
      quality_score : {49, 50, 80},
      warnings : { << >>, << W_SIDEWAYS >>, << W_LOW_VOLUME >>, << W_VOLATILITY("EXTREME") >>,
                   << W_VOLATILITY("HIGH") >>, << W_MIXED_CASE >>, << W_EMBEDDED >>,
                   << W_SIDEWAYS, W_LOW_VOLUME >> } ]

\* signal_generator.validate_signal_quality(signal)
ValidateSignalQuality ==
    /\ \E sig \in SignalInputs :
          call' = [ op |-> "validate_signal_quality", args |-> sig,
                    ret |-> validate_signal_quality(sig) ]
    /\ UNCHANGED << agentVars, apiVars >>

\* signal_generator.generate_signal(full_analysis(..), full_chart_analysis(..), price)
GenerateSignal ==
    /\ \E m \in SignalMarkets :
          /\ call' = [ op |-> "generate_signal", args |-> m,
                       ret |-> generate_signal(full_analysis(m), full_chart_analysis(m),
                                               m.close) ]
    /\ UNCHANGED << agentVars, apiVars >>

SpecSignalInit == InitAgent([ capital |-> default_capital, max_risk_percent |-> 2,
                              max_daily_loss_percent |-> 5 ])

SpecSignalNext == ValidateSignalQuality \/ GenerateSignal

SpecSignal == SpecSignalInit /\ [][SpecSignalNext]_vars

\* signal_generator.generate_signal(technical_data, chart_data, current_price) with
\* the chart_data of a caller: nearest levels up to 5% away on each side of the price
GenerateSignalAtLevels ==
    /\ \E m \in {FlatMarket, BullMarket, BearMarket} :
       \E nearest_support, nearest_resistance \in
              {None} \cup { Some([ price |-> price, strength |-> 4 ]) :
                               price \in {9500, 9900, 9950, 10050, 10100, 10500} } :
          call' = [ op |-> "generate_signal",
                    args |-> [ market |-> m, nearest_support |-> nearest_support,
                               nearest_resistance |-> nearest_resistance ],
                    ret |-> generate_signal(full_analysis(m),
                                [ full_chart_analysis(m) EXCEPT
                                      !.nearest_support = nearest_support,
                                      !.nearest_resistance = nearest_resistance ],
                                m.close) ]
    /\ UNCHANGED << agentVars, apiVars >>

SpecLevelsInit == InitAgent([ capital |-> default_capital, max_risk_percent |-> 2,
                              max_daily_loss_percent |-> 5 ])

SpecLevelsNext == GenerateSignalAtLevels

SpecLevels == SpecLevelsInit /\ [][SpecLevelsNext]_vars

StopLossInputs ==
    [ entry_price : {10000, 4200000},
      signal_type : {"BUY", "SELL"},
      atr : {1, 150, 50000},
      support_level : {None, Some(9800), Some(10500)},
      resistance_level : {None, Some(10400), Some(9900)},
      method : {"ATR", "LEVEL", "PERCENTAGE"} ]

\* risk_manager.calculate_stop_loss(...)
CalculateStopLoss ==
    /\ \E a \in StopLossInputs :
          call' = [ op |-> "calculate_stop_loss", args |-> a,
                    ret |-> calculate_stop_loss(a.entry_price, a.signal_type, a.atr,
                                a.support_level, a.resistance_level, a.method) ]
    /\ UNCHANGED << agentVars, apiVars >>

\* risk_manager.check_daily_loss_limit(potential_loss)
CheckDailyLossLimit ==
    /\ \E potential_loss \in {0, 20000, 50000, 50001, 60000} :
          call' = [ op |-> "check_daily_loss_limit", args |-> potential_loss,
                    ret |-> check_daily_loss_limit(risk_manager, potential_loss) ]
    /\ UNCHANGED << agentVars, apiVars >>

\* risk_manager.check_portfolio_risk(new_position_risk)
CheckPortfolioRisk ==
    /\ \E new_position_risk \in {0, 20000, 150000, 200000} :
          call' = [ op |-> "check_portfolio_risk", args |-> new_position_risk,
                    ret |-> check_portfolio_risk(risk_manager, new_position_risk, 5) ]
    /\ UNCHANGED << agentVars, apiVars >>

\* risk_manager.full_risk_analysis(entry_price, signal_type, atr, support_level,
\* resistance_level)
FullRiskAnalysis ==
    /\ \E a \in [ entry_price : {4200000},
                  signal_type : {"BUY", "SELL"},
                  atr : {15000, 50000},
                  support_level : {None, Some(4100000), Some(4250000), Some(4154999)},
                  resistance_level : {None, Some(4300000), Some(4150000),
                                      Some(4245001)} ] :
          call' = [ op |-> "full_risk_analysis", args |-> a,
                    ret |-> full_risk_analysis(risk_manager, a.entry_price,
                                a.signal_type, a.atr, a.support_level,
                                a.resistance_level) ]
    /\ UNCHANGED << agentVars, apiVars >>

SpecRiskInit == \E cfg \in AgentConfigs : InitAgent(cfg)

SpecRiskNext ==
    \/ CalculateStopLoss
    \/ CheckDailyLossLimit
    \/ CheckPortfolioRisk
    \/ FullRiskAnalysis

SpecRisk == SpecRiskInit /\ [][SpecRiskNext]_vars

\* risk_manager.calculate_take_profits(entry_price, stop_loss, signal_type,
\* resistance_level, support_level); with a stop distance of 0 the ratio of tp3
\* divides by zero and the call raises (ret is None)
CalculateTakeProfits ==
    /\ \E a \in [ entry_price : {4200000},
                  stop_loss : [ distance_pips : {0, 150, 75000} ],
                  signal_type : {"BUY", "SELL"},
                  resistance_level : {None, Some(4300000), Some(4350000),
                                      Some(4400000), Some(5310000)},
                  support_level : {None, Some(4100000), Some(4050000),
                                   Some(4000000), Some(3180000)} ] :
          call' = [ op |-> "calculate_take_profits", args |-> a,
                    ret |-> IF a.stop_loss.distance_pips = 0 THEN None
                            ELSE Some(calculate_take_profits(a.entry_price, a.stop_loss,
                                          a.signal_type, a.resistance_level,
                                          a.support_level)) ]
    /\ UNCHANGED << agentVars, apiVars >>

\* risk_manager.calculate_risk_reward(entry_price, stop_loss, take_profits); the
\* legs are TakeProfit objects at 1, 2 and r3 / 100 times a base distance; with a
\* stop distance of 0 the ratio divides by zero and the call raises (ret is None)
CalculateRiskReward ==
    /\ \E a \in [ entry_price : {4200000},
                  stop_loss : [ distance_pips : {0, 150, 75000} ],
                  base : {150, 75000},
                  r3 : {100, 200, 300, 450, 698, 700, 1000} ] :
          LET take_profits ==
                  [ tp1 |-> TakeProfit(a.entry_price, a.entry_price + a.base,
                                       a.base, 100, 50),
                    tp2 |-> TakeProfit(a.entry_price, a.entry_price + 2 * a.base,
                                       2 * a.base, 200, 30),
                    tp3 |-> TakeProfit(a.entry_price,
                                       a.entry_price + (a.base * a.r3) \div 100,
                                       (a.base * a.r3) \div 100, a.r3, 20) ]
          IN  call' = [ op |-> "calculate_risk_reward",
                        args |-> [ entry_price |-> a.entry_price,
                                   stop_loss |-> a.stop_loss,
                                   take_profits |-> take_profits ],
                        ret |-> IF a.stop_loss.distance_pips = 0 THEN None
                                ELSE Some(calculate_risk_reward(risk_manager,
                                              a.entry_price, a.stop_loss,
                                              take_profits)) ]
    /\ UNCHANGED << agentVars, apiVars >>

\* risk_manager.calculate_position_size(entry_price, stop_loss)
CalculatePositionSize ==
    /\ \E a \in [ entry_price : {10000, 4200000},
                  stop_loss : [ distance_pips : {7500, 75000} ] ] :
          call' = [ op |-> "calculate_position_size", args |-> a,
                    ret |-> calculate_position_size(risk_manager, a.entry_price,
                                                    a.stop_loss) ]
    /\ UNCHANGED << agentVars, apiVars >>

\* risk_manager.calculate_trailing_stop(entry_price, current_price, signal_type, atr,
\* profit_locked)
CalculateTrailingStop ==
    /\ \E a \in [ entry_price : {10000, 4200000},
                  move : {0 - 300, 0 - 5, 0, 5, 300},
                  signal_type : {"BUY", "SELL"},
                  atr : {100, 600, 1000},
                  profit_locked : {50, 100} ] :
          LET args == [ entry_price   |-> a.entry_price,
                        current_price |-> a.entry_price + a.move,
                        signal_type   |-> a.signal_type,
                        atr           |-> a.atr,
                        profit_locked |-> a.profit_locked ]
          IN  call' = [ op |-> "calculate_trailing_stop", args |-> args,
                        ret |-> calculate_trailing_stop(args.entry_price,
                                    args.current_price, args.signal_type, args.atr,
                                    args.profit_locked) ]
    /\ UNCHANGED << agentVars, apiVars >>

SpecTargetsInit == \E cfg \in AgentConfigs : InitAgent(cfg)

SpecTargetsNext ==
    \/ CalculateTakeProfits
    \/ CalculateRiskReward
    \/ CalculatePositionSize
    \/ CalculateTrailingStop

SpecTargets == SpecTargetsInit /\ [][SpecTargetsNext]_vars

-----------------------------------------------------------------------------
(* Properties of the direct calls *)

\* C1: validate_signal_quality passes a signal exactly when its confluence count is
\* at least 2, its quality score is at least 50, and none of its warnings contains
\* EXTREME or CAUTION in any letter case.
C1_PassedIffThresholdsAndNoCriticalWarning ==
    call.op = "validate_signal_quality" =>
        (call.ret.passed <=>
            /\ call.args.confluence_count >= 2
            /\ call.args.quality_score >= 50
            /\ \A i \in 1..Len(call.args.warnings) :
                  /\ ~ Contains(T_EXTREME, Upper(call.args.warnings[i]))
                  /\ ~ Contains(T_CAUTION, Upper(call.args.warnings[i])))

\* C2: for a positive entry and a positive ATR, under every method and every supplied
\* or absent level, the stop of a BUY is strictly below the entry, the stop of a SELL
\* strictly above it, and the reported distance is strictly positive.
C2_StopOnProtectiveSide ==
    (call.op = "calculate_stop_loss" /\ call.args.entry_price > 0 /\ call.args.atr > 0) =>
        /\ call.args.signal_type = "BUY" => call.ret.price < call.args.entry_price
        /\ call.args.signal_type = "SELL" => call.ret.price > call.args.entry_price
        /\ call.ret.distance_pips > 0

\* C5: check_daily_loss_limit allows a trade exactly when daily_losses plus the
\* potential loss is at most capital * max_daily_loss_percent / 100, and the remaining
\* allowance it reports is that maximum minus daily_losses minus the potential loss.
C5_RemainingCountsPotentialLoss ==
    call.op = "check_daily_loss_limit" =>
        /\ call.ret.allowed <=>
              100 * (risk_manager.daily_losses + call.args)
                  <= risk_manager.capital * risk_manager.max_daily_loss_percent
        /\ call.ret.remaining_allowance =
              call.ret.max_daily_loss - risk_manager.daily_losses - call.args

\* C11: whatever entry, stop-loss, direction and levels calculate_take_profits is
\* given, the targets it returns have TP1.ratio exactly 1.0, TP2.ratio exactly 2.0,
\* TP3.ratio at least 2.0, and position percentages 50, 30 and 20, which sum to 100.
C11_TargetRatiosAndPercentages ==
    (call.op = "calculate_take_profits" /\ call.ret # None) =>
        LET tp == call.ret[1]
        IN  /\ tp.tp1.ratio = 100
            /\ tp.tp2.ratio = 200
            /\ tp.tp3.ratio >= 200
            /\ tp.tp1.position_percentage = 50
            /\ tp.tp2.position_percentage = 30
            /\ tp.tp3.position_percentage = 20
            /\ tp.tp1.position_percentage + tp.tp2.position_percentage
                   + tp.tp3.position_percentage = 100

\* targets returned for a SELL whose support lies between entry and TP2 and whose
\* resistance is supplied too
C11_Witness ==
    /\ call.op = "calculate_take_profits"
    /\ call.ret # None
    /\ call.args.signal_type = "SELL"
    /\ call.args.stop_loss.distance_pips = 75000
    /\ call.args.support_level = Some(4100000)
    /\ call.args.resistance_level # None
    /\ call.ret[1].tp3.ratio = 300

C13_RatioIsWeightedProfitOverStop ==
    (call.op = "calculate_risk_reward" /\ call.ret # None) =>
        LET tp      == call.args.take_profits
            sl      == call.args.stop_loss.distance_pips
            \* 100 * weighted profit, in cents
            w       == tp.tp1.distance_pips * tp.tp1.position_percentage
                       + tp.tp2.distance_pips * tp.tp2.position_percentage
                       + tp.tp3.distance_pips * tp.tp3.position_percentage
            example == /\ sl = 75000
                       /\ tp.tp1.distance_pips = 75000
                       /\ tp.tp2.distance_pips = 150000
                       /\ tp.tp3.distance_pips = 225000
        IN  /\ call.ret[1].ratio = RoundDiv(w, sl)
            /\ call.ret[1].status =
                  IF 10 * w >= 2500 * sl THEN "EXCELLENT"
                  ELSE IF 10 * w >= 2000 * sl THEN "GOOD"
                  ELSE IF 10 * w >= 1500 * sl THEN "ACCEPTABLE"
                  ELSE "REJECT"
            /\ example => /\ w = 100 * 127500
                          /\ call.ret[1].ratio = 170
                          /\ call.ret[1].status = "ACCEPTABLE"

\* the worked example: stop 750.00, legs 750.00, 1500.00 and 2250.00
C13_Witness ==
    /\ call.op = "calculate_risk_reward"
    /\ call.ret # None
    /\ call.args.stop_loss.distance_pips = 75000
    /\ call.args.take_profits.tp1.distance_pips = 75000
    /\ call.args.take_profits.tp3.distance_pips = 225000
    /\ call.ret[1].status = "ACCEPTABLE"

\* C14: for a valid trade (entry, stop distance, capital and risk percent all above
\* zero) calculate_position_size returns risk_amount = capital * risk_percent / 100,
\* units = risk_amount / stop distance, lot_size = units / 100000 and
\* leverage_required = units * entry / capital, and every returned field (units,
\* lot_size, risk_amount, position_value, leverage_required) is strictly above zero;
\* capital 10000 at 2% with a stop distance of 750 gives risk_amount 200 and a
\* positive lot_size.
C14_PositionSizeFieldsPositive ==
    ( /\ call.op = "calculate_position_size"
      /\ call.args.entry_price > 0
      /\ call.args.stop_loss.distance_pips > 0
      /\ risk_manager.capital > 0
      /\ risk_manager.max_risk_percent > 0 ) =>
        LET cap_pct == risk_manager.capital * risk_manager.max_risk_percent
            sl      == call.args.stop_loss.distance_pips
        IN  /\ call.ret.risk_amount = RoundDiv(cap_pct, 100)
            /\ call.ret.units = RoundDiv(cap_pct, sl)
            /\ call.ret.lot_size = RoundDiv(cap_pct, 1000 * sl)
            /\ call.ret.leverage_required =
                   RoundDiv(risk_manager.max_risk_percent * call.args.entry_price, sl)
            /\ call.ret.units > 0
            /\ call.ret.lot_size > 0
            /\ call.ret.risk_amount > 0
            /\ call.ret.position_value > 0
            /\ call.ret.leverage_required > 0
            /\ ( risk_manager.capital = 1000000 /\ risk_manager.max_risk_percent = 2
                 /\ sl = 75000 ) => call.ret.risk_amount = 20000

\* C15: generate_signal returns BUY exactly when the bullish vote total exceeds the
\* bearish one, SELL exactly when the bearish total exceeds the bullish, HOLD exactly
\* when they are equal; the confidence of a BUY or SELL is
\* min(100, max(bullish, bearish) / max(1, min(bullish, bearish)) * 30
\*          + confluence_count * 10), that of a HOLD is 40, and it lies in [0, 100].
C15_DecisionAndConfidence ==
    call.op = "generate_signal" =>
        LET m       == call.args
            acc     == Votes(full_analysis(m), full_chart_analysis(m), m.close)
            bullish == acc.bullish_signals
            bearish == acc.bearish_signals
            signal  == call.ret
        IN  /\ signal.signal_type = "BUY" <=> bullish > bearish
            /\ signal.signal_type = "SELL" <=> bearish > bullish
            /\ signal.signal_type = "HOLD" <=> bullish = bearish
            /\ signal.signal_type \in {"BUY", "SELL"} =>
                   signal.confidence =
                       Min(10000, RoundDiv(Max(bullish, bearish) * 3000,
                                           Max(1, Min(bullish, bearish)))
                                  + signal.confluence_count * 1000)
            /\ signal.signal_type = "HOLD" => signal.confidence = 4000
            /\ 0 <= signal.confidence /\ signal.confidence <= 10000

\* a SELL on three bearish votes against two bullish ones over four reasons:
\* confidence 3 / 2 * 30 + 40 = 85, under the cap
C15_Witness ==
    /\ call.op = "generate_signal"
    /\ call.ret.signal_type = "SELL"
    /\ call.ret.confluence_count = 4
    /\ call.ret.confidence = 8500

\* C16: every TradingSignal generate_signal returns has confluence_count equal to
\* the number of its reasons, and a quality_score equal to min(confluence_count * 8, 40)
\* plus the ADX bonus (30 above 40, 20 above 25, 10 above 15, else 0) plus the volume
\* bonus (15 for CONFIRM, 7 for NEUTRAL, else 0) plus min(pattern_count * 5, 15),
\* which lies in [0, 100].
C16_QualityScoreOfSignal ==
    call.op = "generate_signal" =>
        LET m             == call.args
            signal        == call.ret
            volume_signal == analyze_volume(m.volume, m.avg_volume).signal
        IN  /\ signal.confluence_count = Len(signal.reasons)
            /\ signal.quality_score =
                     Min(signal.confluence_count * 8, 40)
                   + (IF m.adx > 40 THEN 30 ELSE IF m.adx > 25 THEN 20
                      ELSE IF m.adx > 15 THEN 10 ELSE 0)
                   + (IF volume_signal = "CONFIRM" THEN 15
                      ELSE IF volume_signal = "NEUTRAL" THEN 7 ELSE 0)
                   + Min(Len(m.patterns) * 5, 15)
            /\ 0 <= signal.quality_score /\ signal.quality_score <= 100

\* a signal over four patterns and four reasons at ADX 30 and normal volume:
\* 32 + 20 + 7 + 15 = 74
C16_Witness ==
    /\ call.op = "generate_signal"
    /\ Len(call.args.patterns) = 4
    /\ call.ret.confluence_count = 4
    /\ call.ret.quality_score = 74

\* C17: the vote totals of generate_signal are built with these weights: a trend
\* containing UPTREND / DOWNTREND counts 2; a Golden / Death cross 1; RSI, MACD,
\* Bollinger and Stochastic BUY / SELL 1 each; ADX 1 in its direction only at strength
\* STRONG or VERY STRONG; every chart pattern with signal BUY / SELL 1; beyond the
\* support / resistance proximity votes nothing else (volume, Fibonacci, volatility)
\* changes either total.
C17_VoteWeights ==
    call.op = "generate_signal" =>
        LET m    == call.args
            td   == full_analysis(m)
            cd   == full_chart_analysis(m)
            acc  == Votes(td, cd, m.close)
            ma   == td.moving_averages
            N    == [ b \in BOOLEAN |-> IF b THEN 1 ELSE 0 ]
            adx  == td.adx.strength \in {"STRONG", "VERY STRONG"}
            side(buy, sell) ==
                  2 * N[Contains(IF buy = "BUY" THEN S_UPTREND ELSE S_DOWNTREND, ma.trend)]
                + N[ma.crossover # None
                      /\ Contains(IF buy = "BUY" THEN S_GOLDEN ELSE S_DEATH,
                                  ma.crossover[1])]
                + N[td.rsi.signal = buy]
                + N[td.macd.signal_type = buy]
                + N[td.bollinger_bands.signal = buy]
                + N[td.stochastic.signal = buy]
                + N[adx /\ td.adx.direction = sell]
                + Cardinality({ i \in 1..Len(cd.patterns) : cd.patterns[i].signal = buy })
            near_support ==
                  cd.nearest_support # None
                  /\ 100 * (m.close - cd.nearest_support[1].price) < m.close
            near_resistance ==
                  cd.nearest_resistance # None
                  /\ 100 * (cd.nearest_resistance[1].price - m.close) < m.close
        IN  /\ acc.bullish_signals = side("BUY", "BULLISH") + N[near_support]
            /\ acc.bearish_signals = side("SELL", "BEARISH") + N[near_resistance]
            /\ call.ret.signal_type = SignalType(side("BUY", "BULLISH") + N[near_support],
                                                 side("SELL", "BEARISH") + N[near_resistance])

\* a SELL whose bearish total holds a Death cross, a Bollinger SELL and a VERY STRONG
\* ADX vote besides the trend, RSI, MACD and Stochastic ones
C17_Witness ==
    /\ call.op = "generate_signal"
    /\ call.args.adx = 65
    /\ call.ret.signal_type = "SELL"
    /\ Votes(full_analysis(call.args), full_chart_analysis(call.args),
             call.args.close).bearish_signals = 8

\* C18: the stop is placed, by method, at entry minus (BUY) or plus (SELL) 1.5 ATR;
\* at the support minus 0.2 ATR (BUY) or the resistance plus 0.2 ATR (SELL), an absent
\* level standing at entry minus / plus 2 ATR; at entry * (1 - 0.025) for a BUY and
\* entry * (1 + 0.025) for a SELL.  full_risk_analysis uses the LEVEL method exactly
\* when a support is supplied for a BUY or a resistance for a SELL, and the ATR method
\* otherwise; entry 42000 with ATR 500 and no level gives a BUY stop of 41250 at
\* distance 750.
C18_StopLossPlacement ==
    /\ call.op = "calculate_stop_loss" =>
          LET a     == call.args
              entry == a.entry_price
              buy   == a.signal_type = "BUY"
              level == IF buy
                       THEN IF a.support_level = None THEN entry - 2 * a.atr
                            ELSE a.support_level[1]
                       ELSE IF a.resistance_level = None THEN entry + 2 * a.atr
                            ELSE a.resistance_level[1]
          IN  /\ a.method = "ATR" =>
                    call.ret.price = IF buy THEN RoundDiv(10 * entry - 15 * a.atr, 10)
                                     ELSE RoundDiv(10 * entry + 15 * a.atr, 10)
              /\ a.method = "LEVEL" =>
                    call.ret.price = IF buy THEN RoundDiv(10 * level - 2 * a.atr, 10)
                                     ELSE RoundDiv(10 * level + 2 * a.atr, 10)
              /\ a.method = "PERCENTAGE" =>
                    call.ret.price = IF buy THEN MulDivRound(entry, 975, 1000)
                                     ELSE MulDivRound(entry, 1025, 1000)
              /\ ( buy /\ a.method = "ATR" /\ entry = 4200000 /\ a.atr = 50000 ) =>
                    call.ret.price = 4125000 /\ call.ret.distance_pips = 75000
    /\ call.op = "full_risk_analysis" =>
          LET a     == call.args
              level == \/ a.signal_type = "BUY" /\ a.support_level # None
                       \/ a.signal_type = "SELL" /\ a.resistance_level # None
              same  == calculate_stop_loss(a.entry_price, a.signal_type, a.atr,
                           a.support_level, a.resistance_level,
                           IF level THEN "LEVEL" ELSE "ATR")
          IN  /\ call.ret.stop_loss.method = IF level THEN "LEVEL" ELSE "ATR"
              /\ call.ret.stop_loss.price = same.price
              /\ ( a.signal_type = "BUY" /\ a.atr = 50000 /\ a.support_level = None ) =>
                    /\ call.ret.stop_loss.price = 4125000
                    /\ call.ret.stop_loss.distance_pips = 75000

\* a full risk analysis of a BUY with a support and a resistance supplied: LEVEL
\* method, stop 0.2 ATR under the support
C18_Witness ==
    /\ call.op = "full_risk_analysis"
    /\ call.args.signal_type = "BUY"
    /\ call.args.atr = 50000
    /\ call.args.support_level = Some(4100000)
    /\ call.args.resistance_level # None
    /\ call.ret.stop_loss.method = "LEVEL"
    /\ call.ret.stop_loss.price = 4090000

\* C19: calculate_trailing_stop returns None exactly when the position is not in
\* profit (BUY: current price at or below entry; SELL: at or above).  In profit it
\* returns the current price minus (BUY) or plus (SELL) profit_locked * ATR, but never
\* a stop looser than break-even plus buffer: never below entry * 1.001 for a BUY,
\* never above entry * 0.999 for a SELL.
C19_TrailingStopHeldAtFloor ==
    call.op = "calculate_trailing_stop" =>
        LET a      == call.args
            buy    == a.signal_type = "BUY"
            profit == IF buy THEN a.current_price > a.entry_price
                      ELSE a.current_price < a.entry_price
            trail  == IF buy
                      THEN RoundDiv(100 * a.current_price - a.atr * a.profit_locked, 100)
                      ELSE RoundDiv(100 * a.current_price + a.atr * a.profit_locked, 100)
            floor  == IF buy THEN MulDivRound(a.entry_price, 1001, 1000)
                      ELSE MulDivRound(a.entry_price, 999, 1000)
        IN  /\ call.ret = None <=> ~ profit
            /\ call.ret # None =>
                  IF buy
                  THEN /\ call.ret[1] = Max(trail, floor)
                       /\ call.ret[1] >= floor
                  ELSE /\ call.ret[1] = Min(trail, floor)
                       /\ call.ret[1] <= floor

-----------------------------------------------------------------------------
(* TradingAgent.analyze called on an agent *)

Symbols == {"BTC/USD"}

\* what the narrative collaborator does when analyze returns at all
Answers == {"answered", "raised"}

\* TradingAgent.analyze(symbol, "1H", ...) on market m
AnalyzeStep(symbol, m, answer) ==
    IF AnalyzeRaises(m)
    THEN /\ call' = [ op |-> "analyze", args |-> [ symbol |-> symbol, market |-> m ],
                      ret |-> [ raised |-> TRUE, analysis |-> None ] ]
         /\ UNCHANGED agentVars
    ELSE LET analysis == Analysis(risk_manager, symbol, "1H", m, answer)
         IN  /\ call' = [ op |-> "analyze", args |-> [ symbol |-> symbol, market |-> m ],
                          ret |-> [ raised |-> FALSE, analysis |-> Some(analysis) ] ]
             /\ risk_manager' = RiskManagerAfter(risk_manager, analysis.risk_checks)
             /\ analysis_history' = HistoryAfter(analysis_history, analysis)
             /\ UNCHANGED capital

\* the first analysis of a freshly constructed agent
FirstAnalyze ==
    /\ analysis_history = << >>
    /\ \E symbol \in Symbols, m \in PipelineMarkets, answer \in Answers :
          AnalyzeStep(symbol, m, answer)
    /\ UNCHANGED apiVars

SpecPipelineInit == \E cfg \in AgentConfigs : InitAgent(cfg)

SpecPipelineNext == FirstAnalyze

SpecPipeline == SpecPipelineInit /\ [][SpecPipelineNext]_vars

\* one analysis after another on the same agent
Analyze ==
    /\ Len(analysis_history) < MaxAnalyses
    /\ \E symbol \in Symbols, m \in AgentMarkets, answer \in Answers :
          AnalyzeStep(symbol, m, answer)
    /\ UNCHANGED apiVars

SpecAgentInit == \E cfg \in AgentConfigs : InitAgent(cfg)

SpecAgentNext == Analyze \/ CheckDailyLossLimit \/ CheckPortfolioRisk

SpecAgent == SpecAgentInit /\ [][SpecAgentNext]_vars

Returned == call.op = "analyze" /\ ~ call.ret.raised

C4_AllReadyIffSixConditions ==
    Returned =>
        LET a   == call.ret.analysis[1]
            ind == a.technical_details.indicators
        IN  a.execution_checklist.all_ready <=>
                /\ a.signal.confluence_count >= 2
                /\ (ind.rsi.signal # "NEUTRAL" \/ ind.macd.signal_type # "NEUTRAL")
                /\ ind.atr.volatility # "EXTREME"
                /\ ind.adx.strength # "WEAK"
                /\ a.risk_reward # None
                /\ a.risk_reward[1].ratio >= 150
                /\ a.risk_checks[1].all_passed

\* what an analysis says of the signal and the risk: all but the narrative
Outputs(analysis) == [ analysis EXCEPT !.llm_analysis = None ]

\* the risk manager as TradingAgent.__init__ built it
Constructed(self) ==
    RiskManager(capital, self.max_risk_percent, self.max_daily_loss_percent,
                self.max_drawdown_percent)

C9_HistoryHasCapacity ==
    \E capacity \in 0..(MaxAnalyses - 1) : Len(analysis_history) <= capacity

-----------------------------------------------------------------------------
(* POST /analyze -- app/main.py, analyze_trading_signal                     *)
(* Each request is a task of the one event loop.  A handler runs without    *)
(* interruption up to its next await; the only await is the broadcast.  The *)
(* narrative call inside analyze is synchronous: while it is pending the    *)
(* task keeps the loop.                                                     *)

\* the ohlcv of a request: enough candles or not, arrays of equal length or not
ApiMarkets ==
    { BullMarket, [ FlatMarket EXCEPT !.adx = 18 ],
      [ BullMarket EXCEPT !.candles = 0 ], [ BullMarket EXCEPT !.candles = 49 ],
      [ BullMarket EXCEPT !.lengths_match = FALSE ] }

\* AnalysisRequest: capital and risk_percent are Optional[float]; risk_percent
\* defaults to 2.0
Requests ==
    [ symbol : Symbols, capital : {None, Some(1000000), Some(500000)},
      risk_percent : {Some(2), Some(5)}, ohlcv : ApiMarkets ]

Failure(status, detail) == [ status |-> status, detail |-> detail, body |-> None ]

\* a request arrives and its handler is scheduled
Arrive(t) ==
    /\ pc[t] = "idle"
    /\ \E req \in Requests : request' = [ request EXCEPT ![t] = Some(req) ]
    /\ pc' = [ pc EXCEPT ![t] = "ready" ]
    /\ UNCHANGED << agentVars, call, response, frame, running, llm, wsVars >>

\* the agent's risk manager after the handler's capital override
OverrideRiskManager(self, req) ==
    IF Truthy(req.capital) THEN [ self EXCEPT !.capital = req.capital[1] ] ELSE self

\* the agent's capital after the handler's capital override
OverrideCapital(cap, req) ==
    IF Truthy(req.capital) THEN req.capital[1] ELSE cap

\* the handler from its start to the narrative call inside analyze: the two
\* input checks, the capital override, the analysis up to the risk plan
HandlerRun(t) ==
    /\ pc[t] = "ready"
    /\ running = None
    /\ LET req == request[t][1]
           m   == req.ohlcv
       IN  IF m.candles = 0
           THEN /\ response' = [ response EXCEPT ![t] =
                                   Some(Failure(400, "OHLCV data is required")) ]
                /\ pc' = [ pc EXCEPT ![t] = "done" ]
                /\ UNCHANGED << agentVars, frame, running, llm >>
           ELSE IF m.candles < 50
           THEN /\ response' = [ response EXCEPT ![t] =
                                   Some(Failure(400, "Insufficient data")) ]
                /\ pc' = [ pc EXCEPT ![t] = "done" ]
                /\ UNCHANGED << agentVars, frame, running, llm >>
           ELSE /\ risk_manager' = OverrideRiskManager(risk_manager, req)
                /\ capital' = OverrideCapital(capital, req)
                /\ IF AnalyzeRaises(m)
                   THEN /\ response' = [ response EXCEPT ![t] =
                                           Some(Failure(500, "Analysis failed")) ]
                        /\ pc' = [ pc EXCEPT ![t] = "done" ]
                        /\ UNCHANGED << analysis_history, frame, running, llm >>
                   ELSE /\ frame' = [ frame EXCEPT ![t] =
                                        Some(Analysis(risk_manager', req.symbol, "1H", m,
                                                      "pending")) ]
                        /\ pc' = [ pc EXCEPT ![t] = "llm" ]
                        /\ running' = Some(t)
                        /\ llm' = "called"
                        /\ UNCHANGED << analysis_history, response >>
    /\ UNCHANGED << call, request, wsVars >>

\* g4f.ChatCompletion.create returns a text
LlmAnswers ==
    /\ llm = "called"
    /\ llm' = "answered"
    /\ UNCHANGED << agentVars, call, pc, request, response, frame, running, wsVars >>

\* g4f.ChatCompletion.create raises; generate_analysis_sync catches it
LlmRaises ==
    /\ llm = "called"
    /\ llm' = "raised"
    /\ UNCHANGED << agentVars, call, pc, request, response, frame, running, wsVars >>

\* g4f.ChatCompletion.create never completes: the call sets no timeout
LlmHangs ==
    /\ llm = "called"
    /\ llm' = "hung"
    /\ UNCHANGED << agentVars, call, pc, request, response, frame, running, wsVars >>

\* analyze from the narrative's return to its own: checklist, result, history
\* append; the handler then awaits the broadcast and lets the loop go
AnalyzeReturn(t) ==
    /\ pc[t] = "llm"
    /\ llm \in {"answered", "raised"}
    /\ LET analysis == [ frame[t][1] EXCEPT !.llm_analysis = LlmAnalysis(llm) ]
       IN  /\ frame' = [ frame EXCEPT ![t] = Some(analysis) ]
           /\ risk_manager' = RiskManagerAfter(risk_manager, analysis.risk_checks)
           /\ analysis_history' = HistoryAfter(analysis_history, analysis)
    /\ pc' = [ pc EXCEPT ![t] = "broadcast" ]
    /\ running' = None
    /\ llm' = "idle"
    /\ UNCHANGED << capital, call, request, response, wsVars >>

\* the broadcast is over and the handler returns the analysis
Respond(t) ==
    /\ pc[t] = "broadcast"
    /\ running = None
    /\ response' = [ response EXCEPT ![t] =
                       Some([ status |-> 200, detail |-> "", body |-> frame[t] ]) ]
    /\ frame' = [ frame EXCEPT ![t] = None ]
    /\ pc' = [ pc EXCEPT ![t] = "done" ]
    /\ UNCHANGED << agentVars, call, request, running, llm, wsVars >>

SpecApiInit == InitAgent([ capital |-> default_capital, max_risk_percent |-> 2,
                           max_daily_loss_percent |-> 5 ])

SpecApiNext ==
    \/ \E t \in Tasks : Arrive(t)
    \/ \E t \in Tasks : HandlerRun(t)
    \/ LlmAnswers
    \/ LlmRaises
    \/ LlmHangs
    \/ \E t \in Tasks : AnalyzeReturn(t)
    \/ \E t \in Tasks : Respond(t)

SpecApi == SpecApiInit /\ [][SpecApiNext]_vars

\* the pending narrative call ends one way or another (hanging is one), and the
\* event loop runs on a task whose call has returned or whose broadcast is over
SpecApiFair ==
    /\ SpecApi
    /\ WF_vars(LlmAnswers \/ LlmRaises \/ LlmHangs)
    /\ \A t \in Tasks : WF_vars(AnalyzeReturn(t))
    /\ \A t \in Tasks : WF_vars(Respond(t))

\* C7: a request that is rejected (no close series, fewer than 50 candles) or fails
\* (an error during analysis, such as arrays of different lengths) leaves the shared
\* risk state as it was: risk_manager.capital and the agent's capital keep the values
\* they had before the request, and no AnalysisRecord is appended.
C7_FailedRequestLeavesStateUnchanged ==
    [][ \A t \in Tasks :
          (pc[t] = "ready" /\ pc'[t] = "done" /\ response'[t][1].status # 200) =>
              /\ risk_manager'.capital = risk_manager.capital
              /\ capital' = capital
              /\ analysis_history' = analysis_history ]_vars

\* a request has passed its capital override and has not been answered yet
InFlight(u) == pc[u] \in {"llm", "broadcast"}

\* the sizing and limit checks of analysis are those capital cap gives for req
SizedWith(analysis, req, cap) ==
    LET same == Analysis([ risk_manager EXCEPT !.capital = cap ], req.symbol, "1H",
                         req.ohlcv, "pending")
    IN  /\ analysis.position_sizing = same.position_sizing
        /\ analysis.risk_reward = same.risk_reward
        /\ analysis.risk_checks = same.risk_checks

\* C8: with several /analyze requests in flight, capital override, risk computation
\* and history append of one request are not interleaved with another's, and the
\* sizing and limit checks of a request are computed with the capital that request
\* supplied, never with a value another in-flight request wrote.
C8_SizedWithOwnCapital ==
    [][ /\ Cardinality({ t \in Tasks : pc'[t] = "llm" }) <= 1
        /\ \A t \in Tasks :
              (pc[t] = "ready" /\ pc'[t] = "llm"
                 /\ frame'[t][1].position_sizing # None) =>
                  LET req == request[t][1]
                      a   == frame'[t][1]
                  IN  /\ Truthy(req.capital) => SizedWith(a, req, req.capital[1])
                      /\ \A u \in Tasks \ {t} :
                            ( /\ InFlight(u)
                              /\ Truthy(request[u][1].capital)
                              /\ SizedWith(a, req, request[u][1].capital[1]) )
                            => req.capital = request[u][1].capital ]_vars

\* C20: the risk_percent of an /analyze request determines the risk amount of that
\* request's position sizing and risk/reward: risk_amount is the capital the request
\* is sized with times request.risk_percent / 100, so that two requests that differ
\* in risk_percent only get different risk amounts.
C20_RequestRiskPercentSetsRiskAmount ==
    [][ \A t \in Tasks :
          ( /\ pc[t] = "ready" /\ pc'[t] = "llm"
            /\ frame'[t][1].risk_reward # None
            /\ Truthy(request[t][1].risk_percent) ) =>
              frame'[t][1].risk_reward[1].risk_amount =
                  RoundDiv(risk_manager'.capital * request[t][1].risk_percent[1], 100)
      ]_vars

\* C21: a capital override is not written into the shared risk manager: once a
\* request with a capital override has completed, a later request that supplies no
\* capital override is sized against the capital the agent was configured with.
C21_NoOverrideSizedWithConfiguredCapital ==
    [][ \A t \in Tasks :
          ( /\ pc[t] = "ready" /\ pc'[t] = "llm"
            /\ \A u \in Tasks \ {t} : pc[u] \in {"idle", "done"}
            /\ ~ Truthy(request[t][1].capital)
            /\ frame'[t][1].position_sizing # None ) =>
              /\ risk_manager'.capital = default_capital
              /\ SizedWith(frame'[t][1], request[t][1], default_capital)
      ]_vars

\* C10: the narrative enrichment never blocks or aborts an analysis: whether the
\* collaborator fails or never completes, an analyze call that reached it still
\* eventually returns.
C10_AnalyzeEventuallyReturns ==
    \A t \in Tasks : (pc[t] = "llm") ~> (pc[t] \in {"broadcast", "done"})

-----------------------------------------------------------------------------
(* The analysis history and its readers: TradingAgent.get_analysis_summary, *)
(* GET /signals/recent and GET /signals/statistics                          *)

\* analyze calls made before the history is read
MaxHistory == 6

\* TradingAgent.get_analysis_summary; average_confidence in hundredths
get_analysis_summary(history) ==
    IF history = << >> THEN [ message |-> "No analysis history available" ]
    ELSE LET n == Len(history)
             count(type) == Cardinality({ i \in 1..n : history[i].signal = type })
             total[i \in 0..n] ==
                 IF i = 0 THEN 0 ELSE total[i - 1] + history[i].confidence
         IN  [ total_analyses      |-> n,
               signal_distribution |-> [ BUY  |-> count("BUY"),
                                         SELL |-> count("SELL"),
                                         HOLD |-> count("HOLD") ],
               average_confidence  |-> RoundDiv(total[n], n),
               recent_analyses     |-> SubSeq(history, Max(1, n - 4), n) ]

\* get_recent_signals: recent is history[-limit:] (limit > 0).  A history record
\* holds its signal as a str, so analysis.get("signal", {}).get("type", "HOLD")
\* raises AttributeError for the first record read, and the handler answers 500
get_recent_signals(history, limit) ==
    LET recent == IF history # << >>
                  THEN SubSeq(history, Max(1, Len(history) - limit + 1), Len(history))
                  ELSE << >>
    IN  IF recent = << >>
        THEN [ status |-> 200, detail |-> "", body |-> Some(<< >>) ]
        ELSE Failure(500, "'str' object has no attribute 'get'")

\* get_signals_statistics: the zero record for an empty history; otherwise the
\* loop reads analysis.get("signal", {}).get("type", "HOLD") on a str and raises
get_signals_statistics(history) ==
    IF history = << >>
    THEN [ status |-> 200, detail |-> "",
           body |-> Some([ total_signals |-> 0, buy_signals |-> 0, sell_signals |-> 0,
                           hold_signals |-> 0, avg_confidence |-> 0, win_rate |-> 0 ]) ]
    ELSE Failure(500, "'str' object has no attribute 'get'")

\* one more analysis on the agent: a rising, a quiet or a falling market, or arrays
\* of different lengths, on which analyze raises
AnalyzeAgain ==
    /\ Len(analysis_history) < MaxHistory
    /\ \E r \in { << "BTC/USD", BullMarket >>, << "BTC/USD", FlatMarket >>,
                  << "ETH/USD", BearMarket >>,
                  << "ETH/USD", [ BullMarket EXCEPT !.lengths_match = FALSE ] >> } :
          AnalyzeStep(r[1], r[2], "answered")
    /\ UNCHANGED apiVars

\* trading_agent.get_analysis_summary()
GetAnalysisSummary ==
    /\ call' = [ op |-> "get_analysis_summary", args |-> << >>,
                 ret |-> get_analysis_summary(analysis_history) ]
    /\ UNCHANGED << agentVars, apiVars >>

\* GET /signals/recent?limit=..
GetRecentSignals ==
    /\ \E limit \in {1, 10} :
          call' = [ op |-> "get_recent_signals", args |-> limit,
                    ret |-> get_recent_signals(analysis_history, limit) ]
    /\ UNCHANGED << agentVars, apiVars >>

\* GET /signals/statistics
GetSignalsStatistics ==
    /\ call' = [ op |-> "get_signals_statistics", args |-> << >>,
                 ret |-> get_signals_statistics(analysis_history) ]
    /\ UNCHANGED << agentVars, apiVars >>

SpecHistoryInit == InitAgent([ capital |-> default_capital, max_risk_percent |-> 2,
                               max_daily_loss_percent |-> 5 ])

SpecHistoryNext ==
    \/ AnalyzeAgain
    \/ GetAnalysisSummary
    \/ GetRecentSignals
    \/ GetSignalsStatistics

SpecHistory == SpecHistoryInit /\ [][SpecHistoryNext]_vars

\* C22: GET /signals/recent and GET /signals/statistics answer with status 200 in
\* every state of the analysis history, also after successful analyses;
\* /signals/recent returns at most limit entries, newest first, each with the signal
\* type and confidence recorded for its analysis, and /signals/statistics reports
\* total_signals equal to the number of recorded analyses.
C22_SignalEndpointsAnswer ==
    /\ call.op = "get_recent_signals" =>
          /\ call.ret.status = 200
          /\ LET body == call.ret.body[1]
                 n    == Len(analysis_history)
             IN  /\ Len(body) = Min(call.args, n)
                 /\ \A i \in 1..Len(body) :
                       /\ body[i].signal = analysis_history[n + 1 - i].signal
                       /\ body[i].confidence = analysis_history[n + 1 - i].confidence
    /\ call.op = "get_signals_statistics" =>
          /\ call.ret.status = 200
          /\ call.ret.body[1].total_signals = Len(analysis_history)

C23_ProximityVoteWithinOnePercent ==
    call.op = "generate_signal" /\ DOMAIN call.args = {"market", "nearest_support",
                                                       "nearest_resistance"} =>
        LET current_price == call.args.market.close
            Voted(label)  == \E i \in 1..Len(call.ret.reasons) :
                                call.ret.reasons[i][1] = label
            Within(level) == 100 * Abs(current_price - level[1].price) < current_price
        IN  /\ Voted("Price at support level") =>
                  /\ call.args.nearest_support # None
                  /\ Within(call.args.nearest_support)
            /\ Voted("Price at resistance level") =>
                  /\ call.args.nearest_resistance # None
                  /\ Within(call.args.nearest_resistance)

C26_LevelStopOnProtectiveSide ==
    (call.op = "analyze" /\ ~ call.ret.raised) =>
        LET analysis == call.ret.analysis[1]
            entry    == analysis.entry.price
        IN  (analysis.stop_loss # None /\ analysis.stop_loss[1].method = "LEVEL") =>
                /\ call.args.market.atr >= 0
                /\ analysis.signal.type \in {"BUY", "SELL"}
                /\ analysis.signal.type = "BUY" =>
                      /\ analysis.technical_details.support # None
                      /\ analysis.technical_details.support[1].price < entry
                      /\ analysis.stop_loss[1].invalidation_logic[2]
                            = analysis.technical_details.support[1].price
                      /\ analysis.stop_loss[1].price < entry
                /\ analysis.signal.type = "SELL" =>
                      /\ analysis.technical_details.resistance # None
                      /\ analysis.technical_details.resistance[1].price > entry
                      /\ analysis.stop_loss[1].invalidation_logic[2]
                            = analysis.technical_details.resistance[1].price
                      /\ analysis.stop_loss[1].price > entry

\* a BUY with a LEVEL-based stop in a market whose detected levels include a support
\* above the price
C26_Witness ==
    /\ call.op = "analyze" /\ ~ call.ret.raised
    /\ call.ret.analysis[1].signal.type = "BUY"
    /\ call.ret.analysis[1].stop_loss # None
    /\ call.ret.analysis[1].stop_loss[1].method = "LEVEL"
    /\ \E i \in 1..Len(call.args.market.sr_levels) :
          /\ call.args.market.sr_levels[i].level_type = "SUPPORT"
          /\ call.args.market.sr_levels[i].price > call.args.market.close

\* C27: a HOLD signal never receives a trade plan: whenever analyze returns a
\* non-null stop_loss or take_profit, and hence whenever execution_checklist.all_ready
\* is true, the signal type is BUY or SELL.
C27_HoldHasNoTradePlan ==
    (call.op = "analyze" /\ ~ call.ret.raised) =>
        LET analysis == call.ret.analysis[1]
        IN  ( \/ analysis.stop_loss # None
              \/ analysis.take_profit # None
              \/ analysis.execution_checklist.all_ready ) =>
                analysis.signal.type \in {"BUY", "SELL"}

\* C28: every full_risk_analysis call with a positive stop distance has a risk/reward
\* ratio of at least 1.5, exactly 1.7 when TP3 is not snapped to a level, so its status
\* is never REJECT and the checklist entry risk_reward_positive built from the plan
\* is true.
C28_RatioAtLeastOneAndAHalf ==
    (call.op = "full_risk_analysis" /\ call.ret.stop_loss.distance_pips > 0) =>
        LET plan    == call.ret
            signal  == generate_signal(full_analysis(BullMarket),
                                       full_chart_analysis(BullMarket), BullMarket.close)
        IN  /\ plan.risk_reward.ratio >= 150
            /\ plan.take_profit.tp3.distance_pips = 3 * plan.stop_loss.distance_pips =>
                  plan.risk_reward.ratio = 170
            /\ plan.risk_reward.status \in {"ACCEPTABLE", "GOOD", "EXCELLENT"}
            /\ CreateExecutionChecklist(signal, full_analysis(BullMarket),
                                        Some(plan)).risk_reward_positive

\* a BUY whose TP3 is snapped to a resistance one cent beyond TP2: ratio 1.5
C28_Witness ==
    /\ call.op = "full_risk_analysis"
    /\ call.args.signal_type = "BUY"
    /\ call.ret.stop_loss.distance_pips = 22500
    /\ call.ret.take_profit.tp3.distance_pips = 45001
    /\ call.ret.risk_reward.ratio = 150
    /\ call.ret.risk_reward.status = "ACCEPTABLE"

\* C29: whenever calculate_trailing_stop returns a price (ATR > 0, lock fraction > 0),
\* that price is on the protective side of the current market price: strictly below
\* current_price for a BUY and strictly above it for a SELL.
C29_TrailingStopBehindMarket ==
    ( /\ call.op = "calculate_trailing_stop"
      /\ call.ret # None
      /\ call.args.atr > 0 /\ call.args.profit_locked > 0 ) =>
        IF call.args.signal_type = "BUY"
        THEN call.ret[1] < call.args.current_price
        ELSE call.ret[1] > call.args.current_price

-----------------------------------------------------------------------------
(* The /ws/signals endpoint and ConnectionManager -- app/main.py            *)
(* Each connection's handler runs from await to await; the client may close *)
(* its end at any moment after connecting.                                   *)

\* active_connections without websocket s: list.remove
Remove(connections, s) == SelectSeq(connections, LAMBDA c : c # s)

\* await manager.connect(websocket): accept, then append to active_connections
WsConnect(s) ==
    /\ websocket[s].pc = "idle"
    /\ active_connections' = Append(active_connections, s)
    /\ websocket' = [ websocket EXCEPT ![s].pc = "greet" ]
    /\ UNCHANGED << agentVars, call, pc, request, response, frame, running, llm >>

\* the client closes its end, or its connection is lost
ClientCloses(s) ==
    /\ websocket[s].pc \in {"greet", "receive", "echo"}
    /\ websocket[s].client = "open"
    /\ websocket' = [ websocket EXCEPT ![s].client = "closed" ]
    /\ UNCHANGED << agentVars, call, pc, request, response, frame, running, llm,
                    active_connections >>

\* await websocket.send_json(..) of the greeting (at = "greet") or of an echo
\* (at = "echo"): sent to an open client; on a closed one it raises, the outer except
\* clauses call manager.disconnect and the handler ends
WsSend(s, at) ==
    /\ websocket[s].pc = at
    /\ IF websocket[s].client = "open"
       THEN /\ websocket' = [ websocket EXCEPT ![s].pc = "receive" ]
            /\ UNCHANGED active_connections
       ELSE /\ active_connections' = Remove(active_connections, s)
            /\ websocket' = [ websocket EXCEPT ![s].pc = "ended" ]
    /\ UNCHANGED << agentVars, call, pc, request, response, frame, running, llm >>

\* data = await websocket.receive_text(): a text of the client; when the client has
\* closed it raises, the bare except around it breaks out of the loop, and the
\* handler returns past both outer except clauses
WsReceive(s) ==
    /\ websocket[s].pc = "receive"
    /\ websocket' = [ websocket EXCEPT ![s].pc =
                        IF websocket[s].client = "open" THEN "echo" ELSE "ended" ]
    /\ UNCHANGED << agentVars, call, pc, request, response, frame, running, llm,
                    active_connections >>

\* manager.broadcast(message) of an /analyze handler: send_json is attempted on
\* every registered connection, and a failing send is passed over
Broadcast ==
    /\ call' = [ op |-> "broadcast", args |-> << >>,
                 ret |-> [ i \in 1..Len(active_connections) |->
                             [ connection |-> active_connections[i],
                               handler    |-> websocket[active_connections[i]].pc,
                               sent       |-> websocket[active_connections[i]].client
                                                 = "open" ] ] ]
    /\ UNCHANGED << agentVars, apiVars >>

SpecWsInit == InitAgent([ capital |-> default_capital, max_risk_percent |-> 2,
                          max_daily_loss_percent |-> 5 ])

SpecWsNext ==
    \/ \E s \in Sockets : WsConnect(s)
    \/ \E s \in Sockets : ClientCloses(s)
    \/ \E s \in Sockets : WsSend(s, "greet")
    \/ \E s \in Sockets : WsSend(s, "echo")
    \/ \E s \in Sockets : WsReceive(s)
    \/ Broadcast

SpecWs == SpecWsInit /\ [][SpecWsNext]_vars

\* C30: every client of /ws/signals that disconnects, whatever the cause, is removed
\* from ConnectionManager.active_connections: once the handler of a connection has
\* ended, the connection is no longer in the list, and a broadcast is attempted only
\* on connections whose handler is still running.
C30_EndedConnectionIsRemoved ==
    /\ \A s \in Sockets :
          websocket[s].pc = "ended" =>
              \A i \in 1..Len(active_connections) : active_connections[i] # s
    /\ call.op = "broadcast" =>
          \A i \in 1..Len(call.ret) : call.ret[i].handler # "ended"

=============================================================================
